---- MODULE Spec2Model ----
(***************************************************************************)
(* Rollback engine, simulation step and live-input handling of the         *)
(* webrtc-fighter runtime (src/src/rollback.ts, src/src/main.ts,           *)
(* the protocol codec and the Rhai VM wrapper), as a state machine.        *)
(*                                                                         *)
(* Two browser pages (peers 1 and 2) each own one Rollback engine, one     *)
(* WASM Rhai module and one live data channel.  A peer's tick is the body  *)
(* of the 60 Hz loop; a peer's input handler is dc.onmessage of the live   *)
(* channel.                                                                *)
(***************************************************************************)
EXTENDS Integers, Sequences, FiniteSets, TLC

(***************************************************************************)
(* Program constants.                                                      *)
(***************************************************************************)
H == 64
FrameMod == 65536
WALK == 16384
LEFT == 4
RIGHT == 8
SeedX == 65536
SeedHp == 100
MaxInt32 == 2147483647

(***************************************************************************)
(* Bounds of the model.                                                    *)
(***************************************************************************)
MaxTicks == 2
MaxInject == 1
IdleStart == 63
WrapStart == 65534
MaxPeerTicks == 2
MaxCalls == 3

Peers == {1, 2}
Other(p) == 3 - p

(***************************************************************************)
(* 32-bit and 16-bit arithmetic.                                           *)
(***************************************************************************)
MinInt32 == (0 - MaxInt32) - 1

\* (a + b) | 0 for two int32 values, computed without leaving the int32 range.
AddI32(a, b) ==
  IF b > 0 /\ a > MaxInt32 - b THEN (a + MinInt32) + (b + MinInt32)
  ELSE IF b < 0 /\ a < MinInt32 - b THEN (a - MinInt32) + (b - MinInt32)
  ELSE a + b

\* (a - b) | 0 for two int32 values.
SubI32(a, b) ==
  IF b = MinInt32
  THEN (IF a >= 0 THEN (a + MinInt32) ELSE (a - MinInt32))
  ELSE AddI32(a, 0 - b)

\* x & 0xffff
U16(x) == x % FrameMod

\* (mask & bit) !== 0 for a single-bit constant
HasBit(mask, bit) == (mask \div bit) % 2 = 1

RECURSIVE Shl(_, _)
\* (h << n) | 0: a left shift is n wrapping doublings
Shl(h, n) == IF n = 0 THEN h ELSE Shl(AddI32(h, h), n - 1)

RECURSIVE hashStrFrom(_, _, _)
hashStrFrom(h, str, i) ==
  IF i > Len(str) THEN h
  ELSE hashStrFrom(AddI32(SubI32(Shl(h, 5), h), str[i]), str, i + 1)

\* hashStr: h = ((h << 5) - h + charCode) | 0 over the characters of a name,
\* a name being the sequence of its character codes.
hashStr(str) == hashStrFrom(0, str, 1)

(***************************************************************************)
(* States of the simulation.                                               *)
(***************************************************************************)
Fighter(x0) ==
  [x |-> x0, vx |-> 0, hp |-> SeedHp, anim |-> 0,
   hitboxActive |-> FALSE, hurtboxActive |-> FALSE]

\* makeRollback's seed state
seed == [frame |-> 0, p1 |-> Fighter(0 - SeedX), p2 |-> Fighter(SeedX)]

\* An array slot that was never assigned (reads as undefined).
Empty == [empty |-> TRUE]

\* The collision map of a new engine (new Map()).  No atlas is ever handed
\* to Rollback.loadCollisionData by main.ts: there the map stays empty.
collisionData == [a \in {} |-> [hitboxes |-> <<>>, hurtboxes |-> <<>>]]

(***************************************************************************)
(* The script VM.  The TypeScript wrapper keeps no per-instance state: every *)
(* RhaiVM object forwards loadSource and tick to the one WASM module of the *)
(* page.  What the module does with a script is not in the repository's    *)
(* TypeScript; the scripts below follow the VM contract of the design.     *)
(***************************************************************************)
Idle == <<105, 100, 108, 101>>
Walk == <<119, 97, 108, 107>>

Scripts == {"walk", "count"}
Stateless == {"walk"}

ScriptInitScope(src) == 0

\* One call of the script's tick(frame, inputMask) entry point on a scope:
\* the command list it returns and the scope it leaves behind.
\*  "walk":  RIGHT -> move(1), LEFT -> move(-1), else move(0); no scope.
\*  "count": counts its calls in the scope and walks on every third call.
\*  "quiet": RIGHT -> move(1), else no command at all; no scope.
ScriptTick(src, scope, frame, mask) ==
  IF src = "walk"
  THEN [cmds |-> IF HasBit(mask, RIGHT) THEN <<[t |-> "move", dx |-> 1]>>
                 ELSE IF HasBit(mask, LEFT) THEN <<[t |-> "move", dx |-> 0 - 1]>>
                 ELSE <<[t |-> "move", dx |-> 0]>>,
        scope |-> scope]
  ELSE IF src = "quiet"
  THEN [cmds |-> IF HasBit(mask, RIGHT) THEN <<[t |-> "move", dx |-> 1]>> ELSE <<>>,
        scope |-> scope]
  ELSE [cmds |-> IF (scope + 1) % 3 = 0
                 THEN <<[t |-> "move", dx |-> 1], [t |-> "anim", name |-> Walk]>>
                 ELSE <<[t |-> "move", dx |-> 0], [t |-> "anim", name |-> Idle]>>,
        scope |-> scope + 1]

\* The page's WASM module after load_script_source(src), with the records the
\* model keeps about its use:
\*   src, scope      the module's state (shared by every RhaiVM of the page)
\*   ticks           number of tick calls made so far
\*   cmds            the command list last returned to vm1 / vm2
\*   own             the scope each VM would hold were it an instance of its own
\*   exp             the command list such an instance would have returned
\*   used            the frame and the two masks of the last simulated step
LoadSource(src) ==
  [src |-> src, scope |-> ScriptInitScope(src), ticks |-> 0,
   cmds |-> <<<<>>, <<>>>>,
   own |-> <<ScriptInitScope(src), ScriptInitScope(src)>>,
   exp |-> <<<<>>, <<>>>>,
   used |-> [frame |-> 0, i1 |-> 0, i2 |-> 0]]

\* RhaiVM.tick of instance `who` (1 = vm1, 2 = vm2): the call goes to the
\* module-level tick_and_get_commands and runs on the module's scope.
VmTick(vm, who, frame, mask) ==
  LET r == ScriptTick(vm.src, vm.scope, frame, mask)
      o == ScriptTick(vm.src, vm.own[who], frame, mask)
  IN [vm EXCEPT !.scope = r.scope,
                !.ticks = @ + 1,
                !.cmds[who] = r.cmds,
                !.own[who] = o.scope,
                !.exp[who] = o.cmds]

(***************************************************************************)
(* Collision boxes.  Pixel quantities are scaled by 8192 so that the       *)
(* fixed-point position x (x / 65536 * 16 pixels) and half widths stay     *)
(* integers: a position is 2 * x, a box offset 8192 * b.x, a half width    *)
(* 4096 * b.width.                                                         *)
(***************************************************************************)
HasData(cd, anim) == anim \in DOMAIN cd

\* box b of a fighter standing at fixed-point x, mirrored when facing left
WorldBox(x, facingLeft, b) ==
  [cx |-> 2 * x + (IF facingLeft THEN 0 - b.x ELSE b.x) * 8192,
   cy |-> 2 * b.y, hw |-> b.width * 4096, hh |-> b.height]

checkCollision(b1, b2) ==
  ~(   b1.cx + b1.hw < b2.cx - b2.hw
    \/ b1.cx - b1.hw > b2.cx + b2.hw
    \/ b1.cy + b1.hh < b2.cy - b2.hh
    \/ b1.cy - b1.hh > b2.cy + b2.hh)

Min2(a, b) == IF a < b THEN a ELSE b
Max2(a, b) == IF a > b THEN a ELSE b

calculateOverlapX(b1, b2) ==
  IF b1.cx + b1.hw < b2.cx - b2.hw \/ b1.cx - b1.hw > b2.cx + b2.hw THEN 0
  ELSE Min2((b1.cx + b1.hw) - (b2.cx - b2.hw), (b2.cx + b2.hw) - (b1.cx - b1.hw))

\* the first hitbox and the first hurtbox of an animation, where present
FirstBoxes(cd, anim, x, facingLeft) ==
  LET d == cd[anim]
  IN (IF Len(d.hitboxes) >= 1 THEN {WorldBox(x, facingLeft, d.hitboxes[1])} ELSE {})
     \cup
     (IF Len(d.hurtboxes) >= 1 THEN {WorldBox(x, facingLeft, d.hurtboxes[1])} ELSE {})

RECURSIVE MaxOf(_)
MaxOf(S) == IF S = {} THEN 0
            ELSE LET v == CHOOSE v \in S : \A w \in S : w <= v
                 IN Max2(v, MaxOf(S \ {v}))

\* step's pushback: both fighters are moved apart by half the largest overlap
\* both fighters are moved apart by a quarter of the overlap each
PushApart(s, pushbackFixed) ==
  IF s.p1.x < s.p2.x
  THEN [s EXCEPT !.p1.x = SubI32(@, pushbackFixed), !.p2.x = AddI32(@, pushbackFixed)]
  ELSE [s EXCEPT !.p1.x = AddI32(@, pushbackFixed), !.p2.x = SubI32(@, pushbackFixed)]

PushIfOverlap(s, maxOverlap) ==
  IF maxOverlap <= 0 THEN s ELSE PushApart(s, maxOverlap \div 4)

Pushback(cd, s, p1FacingLeft, p2FacingLeft) ==
  IF ~(HasData(cd, s.p1.anim) /\ HasData(cd, s.p2.anim)) THEN s
  ELSE PushIfOverlap(s,
         MaxOf({calculateOverlapX(a, b) :
                  a \in FirstBoxes(cd, s.p1.anim, s.p1.x, p1FacingLeft),
                  b \in FirstBoxes(cd, s.p2.anim, s.p2.x, p2FacingLeft)}))

\* does the attacker's first hitbox touch the victim's first hurtbox
Hits(cd, att, attLeft, vic, vicLeft) ==
  /\ att.hitboxActive /\ vic.hurtboxActive
  /\ HasData(cd, att.anim) /\ HasData(cd, vic.anim)
  /\ Len(cd[att.anim].hitboxes) >= 1
  /\ Len(cd[vic.anim].hurtboxes) >= 1
  /\ checkCollision(WorldBox(att.x, attLeft, cd[att.anim].hitboxes[1]),
                    WorldBox(vic.x, vicLeft, cd[vic.anim].hurtboxes[1]))

(***************************************************************************)
(* The deterministic per-tick step.                                        *)
(***************************************************************************)
\* one command of the command loop of step: move sets vx from the sign of
\* dx, anim sets the animation hash, hitbox / hurtbox set the flags
\* the command loop of the first version of step, which walks at
\* FP.from(2.5) = 163840 per tick
ApplyCmdV1(f, c) ==
  IF c.t = "move"
  THEN [f EXCEPT !.vx = IF c.dx > 0 THEN 163840
                        ELSE IF c.dx < 0 THEN 0 - 163840 ELSE 0]
  ELSE IF c.t = "anim" THEN [f EXCEPT !.anim = hashStr(c.name)]
  ELSE f

ApplyCmd(f, c) ==
  IF c.t = "move"
  THEN [f EXCEPT !.vx = IF c.dx > 0 THEN WALK
                        ELSE IF c.dx < 0 THEN 0 - WALK ELSE 0]
  ELSE IF c.t = "anim" THEN [f EXCEPT !.anim = hashStr(c.name)]
  ELSE IF c.t = "hitbox" THEN [f EXCEPT !.hitboxActive = c.active]
  ELSE IF c.t = "hurtbox" THEN [f EXCEPT !.hurtboxActive = c.active]
  ELSE f

RECURSIVE ApplyCmds(_, _, _)
ApplyCmds(f, cmds, i) ==
  IF i > Len(cmds) THEN f
  ELSE ApplyCmds(ApplyCmd(f, cmds[i]), cmds, i + 1)

\* x = (x + vx) | 0
Move(f) == [f EXCEPT !.x = AddI32(f.x, f.vx)]

\* one fighter's part of step: the command loop, then the move
Advance(f, cmds) == Move(ApplyCmds(f, cmds, 1))

\* the fighter `who` takes the commands its tick call returned
TakeCmds(s, who, v) ==
  [s |-> IF who = 1 THEN [s EXCEPT !.p1 = Advance(s.p1, v.cmds[1])]
         ELSE [s EXCEPT !.p2 = Advance(s.p2, v.cmds[2])],
   vm |-> v]

\* vm.tick(nextFrame, mask) for one player and the application of its commands
TickPlayer(c, who, nextFrame, mask) ==
  TakeCmds(c.s, who, VmTick(c.vm, who, nextFrame, mask))

\* P1's hitbox against P2's hurtbox, then P2's against P1's
\* a hit on P2 that lowers hp without the clamp at 0
HitP1NoClamp(cd, s, p1FacingLeft, p2FacingLeft) ==
  IF Hits(cd, s.p1, p1FacingLeft, s.p2, p2FacingLeft)
  THEN [s EXCEPT !.p2.hp = @ - 1] ELSE s

HitP1(cd, s, p1FacingLeft, p2FacingLeft) ==
  IF Hits(cd, s.p1, p1FacingLeft, s.p2, p2FacingLeft)
  THEN [s EXCEPT !.p2.hp = Max2(0, @ - 1)] ELSE s

HitP2(cd, s, p1FacingLeft, p2FacingLeft) ==
  IF Hits(cd, s.p2, p2FacingLeft, s.p1, p1FacingLeft)
  THEN [s EXCEPT !.p1.hp = Max2(0, @ - 1)] ELSE s

\* the part of step after the two tick calls: pushback, hits, and
\* frame = (frame + 1) & 0xffff
stepTail(cd, c, frame, in1, in2, p1FacingLeft, p2FacingLeft) ==
  [s |-> [HitP2(cd, HitP1(cd, Pushback(cd, c.s, p1FacingLeft, p2FacingLeft),
                          p1FacingLeft, p2FacingLeft),
                p1FacingLeft, p2FacingLeft)
            EXCEPT !.frame = U16(frame + 1)],
   vm |-> [c.vm EXCEPT !.used = [frame |-> U16(frame + 1), i1 |-> in1, i2 |-> in2]]]

\* step(s, in1, in2, vm1, vm2, collisionData): P1, then P2, then pushback and
\* hits.  Facing is taken from the positions before the move.  Returns the
\* new state and the VM module after the two tick calls.
step(s, in1, in2, vm, cd) ==
  stepTail(cd, TickPlayer(TickPlayer([s |-> s, vm |-> vm], 1, s.frame + 1, in1),
                          2, s.frame + 1, in2),
           s.frame, in1, in2, s.p1.x > s.p2.x, s.p1.x < s.p2.x)

(***************************************************************************)
(* hashState: FNV-1a style fingerprint.  A 32-bit word is kept as the      *)
(* int32 with the same bit pattern.                                        *)
(***************************************************************************)
RECURSIVE Xor16(_, _, _)
\* a ^ b for two values below 2^n
Xor16(a, b, n) ==
  IF n = 0 THEN 0
  ELSE (IF a % 2 = b % 2 THEN 0 ELSE 1) + 2 * Xor16(a \div 2, b \div 2, n - 1)

Lo16(v) == v % FrameMod
Hi16(v) == ((v - Lo16(v)) \div FrameMod) % FrameMod
FromHalves(hi, lo) == (IF hi >= 32768 THEN hi - FrameMod ELSE hi) * FrameMod + lo

XorI32(a, b) == FromHalves(Xor16(Hi16(a), Hi16(b), 16), Xor16(Lo16(a), Lo16(b), 16))

\* Math.imul(h, 16777619): 16777619 = 2^24 + 2^8 + 2^7 + 2^4 + 2 + 1
FnvPrime == 16777619
MulPrime(h) ==
  LET lo == Lo16(h)
      hi == Hi16(h)
      pl == lo * (FnvPrime % FrameMod)
  IN FromHalves((hi * (FnvPrime % FrameMod) + lo * (FnvPrime \div FrameMod)
                 + pl \div FrameMod) % FrameMod,
                pl % FrameMod)
hash32(h, v) == MulPrime(XorI32(h, v))

Bit(b) == IF b THEN 1 ELSE 0

\* the fields of one fighter in the order hashState feeds them to hash32
hashFighter(f) ==
  <<f.x, f.vx, f.hp, f.anim, Bit(f.hitboxActive), Bit(f.hurtboxActive)>>

RECURSIVE hashAll(_, _)
hashAll(c, vals) ==
  IF c.i > Len(vals) THEN c.h
  ELSE hashAll([h |-> hash32(c.h, vals[c.i]), i |-> c.i + 1], vals)

\* 2166136261 is 0x811C9DC5, as an int32: 2166136261 - 2^32
hashState(s) ==
  hashAll([h |-> 0 - 2128831035, i |-> 1],
          <<s.frame>> \o hashFighter(s.p1) \o hashFighter(s.p2))

(***************************************************************************)
(* Live-channel codec.                                                     *)
(***************************************************************************)
\* an encoder that writes its arguments as they are
encInputRaw(frame, mask, ack) ==
  [t |-> "Input", frame |-> frame, mask |-> mask, ack |-> ack]

\* setUint16(_, x & 0xffff, true) three times
encInput(frame, mask, ack) ==
  [t |-> "Input", frame |-> U16(frame), mask |-> U16(mask), ack |-> U16(ack)]
decInput(buf) == [frame |-> buf.frame, mask |-> buf.mask, ack |-> buf.ack]

\* setUint32(_, h >>> 0, true): the four bytes of h mod 2^32, low byte first
Uint32Bytes(h) ==
  <<h % 256, (h \div 256) % 256, (h \div 65536) % 256, (h \div 16777216) % 256>>

\* getUint32(_, true); the 32-bit word is held as the int32 with the same bits
Uint32Word(b) ==
  b[1] + 256 * b[2] + 65536 * b[3]
  + 16777216 * (IF b[4] >= 128 THEN b[4] - 256 ELSE b[4])

encStateHash(frame, h) ==
  [t |-> "StateHash", frame |-> U16(frame), h |-> Uint32Bytes(h)]

(***************************************************************************)
(* class Rollback.  An engine is a record                                  *)
(*   hist                 the 64-slot snapshot array                       *)
(*   in1, in2             the two Uint16Array(65536) input rings, kept as  *)
(*                        the map of their non-zero elements               *)
(*   latest               the latest committed frame                       *)
(*   collisionData        the map from animation hash to its boxes         *)
(*   localPlayerNumber    1 or 2                                           *)
(*   wr1, wr2             the slots of in1 / in2 ever assigned (a typed    *)
(*                        array itself cannot tell)                        *)
(***************************************************************************)
Slots == 0 .. (H - 1)
EmptyRing == [i \in {} |-> 0]

\* a typed-array element read: always a number, 0 where nothing was stored
RingRead(ring, i) == IF i \in DOMAIN ring THEN ring[i] ELSE 0

\* ring[i] = m on a Uint16Array
RingWrite(ring, i, m) ==
  IF U16(m) = 0 THEN [j \in DOMAIN ring \ {i} |-> ring[j]]
  ELSE [j \in DOMAIN ring \cup {i} |-> IF j = i THEN U16(m) ELSE ring[j]]

Undefined == 0 - 1
\* a ?? b
Nullish(a, b) == IF a = Undefined THEN b ELSE a

\* new Rollback(seedState, vmFactory, localPlayerNumber)
NewRollback(seedState, lpn) ==
  [hist |-> [i \in Slots |-> IF i = seedState.frame % H THEN seedState ELSE Empty],
   in1 |-> EmptyRing, in2 |-> EmptyRing,
   latest |-> seedState.frame,
   localPlayerNumber |-> lpn,
   collisionData |-> collisionData,
   wr1 |-> {}, wr2 |-> {}]

\* loadCollisionData(animConfigs): one map entry per animation name, keyed by
\* hashStr(name) (the names given here have distinct hashes)
loadCollisionData(r, animConfigs) ==
  [r EXCEPT !.collisionData =
     [h \in DOMAIN @ \cup {hashStr(n) : n \in DOMAIN animConfigs} |->
        IF \E n \in DOMAIN animConfigs : hashStr(n) = h
        THEN animConfigs[CHOOSE n \in DOMAIN animConfigs : hashStr(n) = h]
        ELSE @[h]]]

setLocalInput(r, f, m) ==
  IF r.localPlayerNumber = 1
  THEN [r EXCEPT !.in1 = RingWrite(@, U16(f), m), !.wr1 = @ \cup {U16(f)}]
  ELSE [r EXCEPT !.in2 = RingWrite(@, U16(f), m), !.wr2 = @ \cup {U16(f)}]

\* an engine that ignores a remote input for a frame it has not reached
setRemoteInputReached(r, f, m) ==
  IF U16(f) > r.latest THEN r
  ELSE IF r.localPlayerNumber = 1
  THEN [r EXCEPT !.in2 = RingWrite(@, U16(f), m), !.wr2 = @ \cup {U16(f)}]
  ELSE [r EXCEPT !.in1 = RingWrite(@, U16(f), m), !.wr1 = @ \cup {U16(f)}]

setRemoteInput(r, f, m) ==
  IF r.localPlayerNumber = 1
  THEN [r EXCEPT !.in2 = RingWrite(@, U16(f), m), !.wr2 = @ \cup {U16(f)}]
  ELSE [r EXCEPT !.in1 = RingWrite(@, U16(f), m), !.wr1 = @ \cup {U16(f)}]

\* getLatest(): the snapshot in slot latest % 64
getLatest(r) == r.hist[r.latest % H]

\* the two masks simulateTo and rollbackFrom read for frame `next`
InputsFor(r, next) ==
  [i1 |-> Nullish(RingRead(r.in1, next), 0),
   i2 |-> Nullish(RingRead(r.in2, next),
                  Nullish(RingRead(r.in2, U16(next - 1)), 0))]

\* a faulty variant of simCommit that stores the snapshot one slot off; the
\* history invariant must tell it from simCommit
simCommitOffSlot(c, st) ==
  [rb |-> [c.rb EXCEPT !.latest = st.s.frame, !.hist[(st.s.frame + 1) % H] = st.s],
   vm |-> st.vm, s |-> st.s, threw |-> FALSE]

\* latest = s.frame; hist[s.frame % H] = clone(s)
simCommit(c, st) ==
  [rb |-> [c.rb EXCEPT !.latest = st.s.frame, !.hist[st.s.frame % H] = st.s],
   vm |-> st.vm, s |-> st.s, threw |-> FALSE]

\* a faulty variant of rollCommit that stores the snapshot one slot off
rollCommitOffSlot(c, st) ==
  [rb |-> [c.rb EXCEPT !.hist[(st.s.frame + 1) % H] = st.s],
   vm |-> st.vm, s |-> st.s, threw |-> FALSE]

\* hist[s.frame % H] = clone(s)
rollCommit(c, st) ==
  [rb |-> [c.rb EXCEPT !.hist[st.s.frame % H] = st.s],
   vm |-> st.vm, s |-> st.s, threw |-> FALSE]

\* one pass of the loop body shared by simulateTo and rollbackFrom
stepNext(c, in) == step(c.s, in.i1, in.i2, c.vm, c.rb.collisionData)

RECURSIVE simLoop(_, _)
simLoop(c, target) ==
  IF c.s.frame < target
  THEN simLoop(simCommit(c, stepNext(c, InputsFor(c.rb, U16(c.s.frame + 1)))), target)
  ELSE c

\* simulateTo(target): reading the latest snapshot of an empty slot throws
simulateTo(r, vm, target) ==
  IF r.hist[r.latest % H] = Empty
  THEN [rb |-> r, vm |-> vm, s |-> Empty, threw |-> TRUE]
  ELSE simLoop([rb |-> r, vm |-> vm, s |-> r.hist[r.latest % H], threw |-> FALSE],
               target)

RECURSIVE rollLoop(_, _)
rollLoop(c, tgt) ==
  IF c.s.frame < tgt
  THEN rollLoop(rollCommit(c, stepNext(c, InputsFor(c.rb, U16(c.s.frame + 1)))), tgt)
  ELSE c

\* a faulty variant of ResumeFrame that resumes from the snapshot of the
\* received frame itself; rollback correctness must tell it from ResumeFrame
ResumeFrameSame(frame) == U16(frame)

\* the frame whose snapshot rollbackFrom resumes from
ResumeFrame(frame) == U16(frame - 1)

\* rollbackFrom(frame): clone(undefined) throws when the resume slot is empty
rollbackFrom(r, vm, frame) ==
  IF r.hist[ResumeFrame(frame) % H] = Empty
  THEN [rb |-> r, vm |-> vm, s |-> Empty, threw |-> TRUE]
  ELSE rollLoop([rb |-> r, vm |-> vm, s |-> r.hist[ResumeFrame(frame) % H],
                 threw |-> FALSE], r.latest)

(***************************************************************************)
(* The assets protocol.  A string is the sequence of its code points, a    *)
(* payload the sequence of its bytes.                                      *)
(***************************************************************************)
\* an absent property of a manifest (meta of a mesh manifest)
Absent == [absent |-> TRUE]

\* TextEncoder.encode: UTF-8, one byte below U+0080, two bytes below U+0800
RECURSIVE TextEncodeFrom(_, _)
TextEncodeFrom(str, i) ==
  IF i > Len(str) THEN <<>>
  ELSE (IF str[i] < 128 THEN <<str[i]>>
        ELSE <<192 + (str[i] \div 64), 128 + (str[i] % 64)>>)
       \o TextEncodeFrom(str, i + 1)

TextEncode(str) == TextEncodeFrom(str, 1)

\* TextDecoder.decode: a lead byte without its continuation byte decodes to
\* the replacement character U+FFFD
RECURSIVE TextDecodeFrom(_, _)
TextDecodeFrom(u, i) ==
  IF i > Len(u) THEN <<>>
  ELSE IF u[i] < 128 THEN <<u[i]>> \o TextDecodeFrom(u, i + 1)
  ELSE IF u[i] >= 192 /\ u[i] < 224 /\ i < Len(u) /\ u[i + 1] >= 128 /\ u[i + 1] < 192
  THEN <<(u[i] - 192) * 64 + (u[i + 1] - 128)>> \o TextDecodeFrom(u, i + 2)
  ELSE <<65533>> \o TextDecodeFrom(u, i + 1)

TextDecode(u) == TextDecodeFrom(u, 1)

\* Uint8Array.subarray(from, to) with 0-based bounds clamped to the array
subarray(u, from, to) == SubSeq(u, from + 1, Min2(to, Len(u)))

\* DataView.setUint32(_, x, true) and getUint32(_, true)
Le32(x) ==
  <<x % 256, (x \div 256) % 256, (x \div 65536) % 256, (x \div 16777216) % 256>>

\* the same four bytes read with the high byte first
getUint32BE(u, at) ==
  16777216 * u[at + 1] + 65536 * u[at + 2] + 256 * u[at + 3] + u[at + 4]

getUint32(u, at) ==
  u[at + 1] + 256 * u[at + 2] + 65536 * u[at + 3] + 16777216 * u[at + 4]

\* JSON.stringify drops a property whose value is undefined; JSON.parse gives
\* back the object with the remaining properties
Stringify(m) ==
  [id |-> m.id, type |-> m.type, entry |-> m.entry, chunks |-> m.chunks,
   meta |-> IF m.meta = Absent THEN Absent ELSE [atlas |-> m.meta.atlas]]

encManifest(m) == [t |-> "Manifest", json |-> Stringify(m)]
decManifest(buf) == buf.json

\* one record of NeedChunks: a length byte (Uint8Array element assignment
\* keeps the low 8 bits) and the bytes of the hash
NeedPart(h) == <<Len(TextEncode(h)) % 256>> \o TextEncode(h)

RECURSIVE NeedParts(_, _)
NeedParts(hashes, i) ==
  IF i > Len(hashes) THEN <<>> ELSE NeedPart(hashes[i]) \o NeedParts(hashes, i + 1)

\* the count is written with setUint16
encNeedChunks(hashes) ==
  [t |-> "NeedChunks", n |-> Len(hashes) % 65536, body |-> NeedParts(hashes, 1)]

\* reads n records starting at byte `off` of the body; a length byte read past
\* the end is undefined, and every later record is then the empty string
RECURSIVE decNeedLoop(_, _, _)
decNeedLoop(body, off, n) ==
  IF n = 0 THEN <<>>
  ELSE IF off >= Len(body) THEN <<<<>>>> \o decNeedLoop(body, Len(body), n - 1)
  ELSE <<TextDecode(subarray(body, off + 1, off + 1 + body[off + 1]))>>
       \o decNeedLoop(body, off + 1 + body[off + 1], n - 1)

decNeedChunks(buf) == decNeedLoop(buf.body, 0, buf.n)

\* type byte, u8 hash length, hash, u32 offset, payload
encChunk(hash, offset, payload) ==
  [t |-> "Chunk", hl |-> Len(TextEncode(hash)) % 256,
   body |-> TextEncode(hash) \o Le32(offset) \o payload]

decChunk(buf) ==
  [hash |-> TextDecode(subarray(buf.body, 0, buf.hl)),
   offset |-> getUint32(buf.body, buf.hl),
   data |-> subarray(buf.body, buf.hl + 4, Len(buf.body))]

\* type byte, u8 name length, name, u32 body length, body
encScriptPush(name, bytes) ==
  [t |-> "ScriptPush", nl |-> Len(TextEncode(name)) % 256,
   body |-> TextEncode(name) \o Le32(Len(bytes)) \o bytes]

decScriptPush(buf) ==
  [name |-> TextDecode(subarray(buf.body, 0, buf.nl)),
   bytes |-> subarray(buf.body, buf.nl + 4,
                      buf.nl + 4 + getUint32(buf.body, buf.nl))]

decStateHash(buf) == [frame |-> buf.frame, hash |-> Uint32Word(buf.h)]

\* the GameStart control frame: opcode only, no payload
encGameStart == [t |-> "GameStart"]

\* byteLength of a Chunk or ScriptPush frame: the type byte, the length byte
\* and the body
byteLength(buf) == 2 + Len(buf.body)

(***************************************************************************)
(* The content-addressed store: a map from hash strings to payloads.       *)
(***************************************************************************)
\* SHA-256 stands behind a digest of one character, which is free of
\* collisions on the payloads used here
RECURSIVE digest(_, _, _)
digest(data, i, h) ==
  IF i > Len(data) THEN h ELSE digest(data, i + 1, (h * 31 + data[i]) % 64)

\* CAS.hashOf: "sha256:" and the hex digest, here "s" and one character
hashOf(data) == <<115, 48 + digest(data, 1, 7)>>

EmptyCas == [h \in {} |-> <<>>]
casHas(c, h) == h \in DOMAIN c
\* CAS.put: Map.set, which replaces the value of an existing key
casPut(c, h, data) == [k \in DOMAIN c \cup {h} |-> IF k = h THEN data ELSE c[k]]
casGet(c, h) == c[h]

\* mime types
Png == "image/png"
Json == "application/json"
Glb == "model/gltf-binary"

ChunkOf(data, mime) == [hash |-> hashOf(data), size |-> Len(data), mime |-> mime]

\* the manifests sendSelectedAsset builds for a GLB file and for a sprite
MeshManifest(glb) ==
  [id |-> "char:glb", type |-> "mesh", entry |-> "glb",
   chunks |-> <<ChunkOf(glb, Glb)>>, meta |-> Absent]

SpriteManifest(png, atlas) ==
  [id |-> "char:sprite", type |-> "sprite", entry |-> "png",
   chunks |-> <<ChunkOf(png, Png), ChunkOf(atlas, Json)>>,
   meta |-> [atlas |-> hashOf(atlas)]]

(***************************************************************************)
(* Script sources.  txtRhai holds one of the two scripts or a text that    *)
(* does not compile; on the wire a source is its text.                     *)
(***************************************************************************)
Bad == "bad"
Sources == Scripts \cup {Bad}
Compiles(src) == src \in Scripts

\* the text of a source and the source a text stands for
SourceText(src) ==
  IF src = "walk" THEN <<119>> ELSE IF src = "count" THEN <<99>> ELSE <<33>>

SourceOf(text) ==
  IF text = <<119>> THEN "walk" ELSE IF text = <<99>> THEN "count" ELSE Bad

\* "logic.rhai"
LogicRhai == <<108, 111, 103, 105, 99, 46, 114, 104, 97, 105>>

\* the files a page can select: a GLB, a sprite sheet and its atlas
GlbFile == <<103, 108>>
PngFile == <<137, 80, 78, 71, 13, 10, 26, 10, 0>>
AtlasFile == <<123, 125>>

\* a module that kept the script state across load_script_source
loadSourceStale(v, src) ==
  IF Compiles(src)
  THEN [LoadSource(src) EXCEPT !.scope = v.scope, !.own = <<v.scope, v.scope>>]
  ELSE v

\* RhaiVM.loadSource on the page's module v: load_script_source compiles the
\* source and starts it afresh; a source that does not compile leaves the
\* module as it was and makes the call return false
loadSource(v, src) == IF Compiles(src) THEN LoadSource(src) ELSE v

\* makeRollback: the seed, two VMs from vmFactory (clone, loadSource(vmSrc)),
\* and playerRole ?? 1
makeRollback(v, src, role) ==
  [rb |-> NewRollback(seed, Nullish(role, 1)),
   vm |-> loadSource(loadSource(v, src), src)]

(***************************************************************************)
(* The state of the two pages.                                             *)
(***************************************************************************)
VARIABLES
  rb,                 \* rb[p]: the page's Rollback engine
  vm,                 \* vm[p]: the page's WASM Rhai module
  lastRemoteAck,      \* _lastRemoteAck
  lastSentLocalFrame, \* _lastSentLocalFrame
  net,                \* net[p]: datagrams in flight on the live channel towards p
  thrown,             \* thrown[p]: an exception has left one of p's handlers
  lost,               \* a datagram was dropped by the live channel
  startFrame,         \* startFrame[p]: idle ticks p had run in the initial state
  nTicks,             \* ticks p has run since the initial state
  nInject,            \* datagrams handed to p from outside the two pages
  lastEvent,          \* lastEvent[p]: p's last handler run and the engine before it
  playerRole,         \* playerRole[p]: 1 for the offerer, 2 for the answerer
  gameStarted,        \* the three gating flags of the loop
  hasAssetsLoaded,
  hasScriptLoaded,
  acc,                \* the loop's accumulator, in units of half a tick
  vmSrc,              \* vmSrc[p]: the script source last applied
  cas,                \* cas[p]: the page's content-addressed store
  lastManifest,       \* lastManifest[p], Absent while null
  anet,               \* anet[p]: frames in flight on the assets channel towards p
  stream,             \* stream[p]: the hashes left to each streamChunks call waiting on p
  buffered,           \* buffered[p]: bufferedAmount of p's end of the assets channel
  nClicks,            \* button clicks and outside frames on the assets side
  gen,                \* gen[p]: script applications p has made
  sentUnder,          \* sentUnder[p]: <<datagram, gen of its sender>> in flight to p
  heldGen,            \* heldGen[p]: <<frame, gen>> of the remote inputs p's engine got
  wiped               \* wiped[p]: those of a later gen that p discarded with an engine

liveVars == <<rb, vm, lastRemoteAck, lastSentLocalFrame, net, thrown, lost,
              startFrame, nTicks, nInject, lastEvent>>
flagVars == <<gameStarted, hasAssetsLoaded, hasScriptLoaded>>
assetVars == <<cas, lastManifest, anet, stream, buffered>>
ghostVars == <<gen, sentUnder, heldGen, wiped>>

vars == <<rb, vm, lastRemoteAck, lastSentLocalFrame, net, thrown, lost,
          startFrame, nTicks, nInject, lastEvent, playerRole, gameStarted,
          hasAssetsLoaded, hasScriptLoaded, acc, vmSrc, cas, lastManifest,
          anet, stream, buffered, nClicks, gen, sentUnder, heldGen, wiped>>

(***************************************************************************)
(* A page that has run k ticks with no key pressed and no remote input     *)
(* under the stateless walk script: every state is the seed with its frame *)
(* number, and both rings still hold only zeros.                           *)
(***************************************************************************)
IdleState(g) == [seed EXCEPT !.frame = g]

IdleEngine(k, lpn) ==
  [NewRollback(seed, lpn) EXCEPT
     !.hist = [i \in Slots |->
                 LET g == k - ((k - i) % H)
                 IN IF g >= 0 THEN IdleState(g) ELSE Empty],
     !.latest = k]

IdleVm(src, k) ==
  IF k = 0 THEN LoadSource(src)
  ELSE [LoadSource(src) EXCEPT
          !.ticks = 2 * k,
          !.cmds = <<ScriptTick(src, 0, k, 0).cmds, ScriptTick(src, 0, k, 0).cmds>>,
          !.exp = <<ScriptTick(src, 0, k, 0).cmds, ScriptTick(src, 0, k, 0).cmds>>,
          !.used = [frame |-> k, i1 |-> 0, i2 |-> 0]]

NoEvent(r, v) ==
  [kind |-> "init", frame |-> 0, mask |-> 0, pre |-> r, preVm |-> v,
   rolled |-> FALSE, threw |-> FALSE]

\* was slot f of ring `ring` (1 or 2) of page p ever assigned
Written(p, ring, f) ==
  \/ f \in (IF ring = 1 THEN rb[p].wr1 ELSE rb[p].wr2)
  \/ ring = rb[p].localPlayerNumber /\ 1 <= f /\ f <= startFrame[p]

RemoteRing(r) == 3 - r.localPlayerNumber

(***************************************************************************)
(* Handlers.                                                               *)
(***************************************************************************)
\* TICK = 1 / 60 s, in units of half a tick
TickLen == 2

\* a gate that does not ask for the script
GateNoScript(p) == gameStarted[p] /\ hasAssetsLoaded[p]

\* gameStarted && hasAssetsLoaded && hasScriptLoaded
Gate(p) == gameStarted[p] /\ hasAssetsLoaded[p] /\ hasScriptLoaded[p]

\* no streamChunks call waiting for the buffer to drain
NoStream == <<>>

\* a loop that sends the StateHash with every frame
TickOutEvery(next, local, ack, s) ==
  {encInput(next, local, ack), encStateHash(s.frame, hashState(s))}

\* what one pass of the loop sends on the open live channel: the Input for
\* the frame, and a StateHash when the simulated frame is a multiple of 16
TickOut(next, local, ack, s) ==
  {encInput(next, local, ack)} \cup
  (IF s.frame % 16 = 0 THEN {encStateHash(s.frame, hashState(s))} ELSE {})

\* the data channels exist once a page has clicked Create Offer and the other
\* Create Answer; they are taken to be open from then on
ChannelsOpen == \A q \in Peers : playerRole[q] # Undefined

\* sendInput only runs with the live channel open; then it stores the frame
\* in _lastSentLocalFrame
TickCommit(p, next, local, ack, sim) ==
  /\ rb' = [rb EXCEPT ![p] = sim.rb]
  /\ vm' = [vm EXCEPT ![p] = sim.vm]
  /\ lastSentLocalFrame' = [lastSentLocalFrame EXCEPT ![p] =
                              IF ChannelsOpen THEN next ELSE @]
  /\ net' = [net EXCEPT ![Other(p)] =
               IF ChannelsOpen THEN @ \cup TickOut(next, local, ack, sim.s) ELSE @]
  /\ thrown' = [thrown EXCEPT ![p] = @ \/ sim.threw]
  /\ lastEvent' = [lastEvent EXCEPT ![p] =
       [kind |-> "tick", frame |-> next, mask |-> local, pre |-> rb[p],
        preVm |-> vm[p], rolled |-> FALSE, threw |-> sim.threw]]
  /\ sentUnder' = [sentUnder EXCEPT ![Other(p)] =
       IF ChannelsOpen
       THEN @ \cup {<<b, gen[p]>> : b \in TickOut(next, local, ack, sim.s)}
       ELSE @]
  /\ UNCHANGED <<lastRemoteAck, lost, startFrame>>

TickAt(p, next, local) ==
  TickCommit(p, next, local, U16(getLatest(rb[p]).frame),
             simulateTo(setLocalInput(rb[p], next, local), vm[p], next))

\* One pass of the loop body of loop(now): sample the keys, commit the local
\* input, send Input (ack = own latest frame), simulate one frame, send
\* StateHash every 16th frame.
Tick(p, local) == TickAt(p, U16(getLatest(rb[p]).frame + 1), local)

OnInputCommit(p, d, r1, roll, res) ==
  /\ rb' = [rb EXCEPT ![p] = IF roll THEN res.rb ELSE r1]
  /\ vm' = [vm EXCEPT ![p] = IF roll THEN res.vm ELSE @]
  /\ thrown' = [thrown EXCEPT ![p] = @ \/ (roll /\ res.threw)]
  /\ lastRemoteAck' = [lastRemoteAck EXCEPT ![p] =
                         IF roll /\ res.threw THEN @ ELSE d.ack]
  /\ lastEvent' = [lastEvent EXCEPT ![p] =
       [kind |-> "input", frame |-> d.frame, mask |-> d.mask, pre |-> rb[p],
        preVm |-> vm[p], rolled |-> roll, threw |-> roll /\ res.threw]]
  /\ UNCHANGED <<lastSentLocalFrame, lost, startFrame>>

OnInputSet(p, d, r1) ==
  OnInputCommit(p, d, r1, d.frame <= getLatest(r1).frame,
                rollbackFrom(r1, vm[p], d.frame))

\* dc.onmessage of the live channel for an Input datagram: setRemoteInput,
\* rollbackFrom when frame <= latest, then _lastRemoteAck = ack
OnInput(p, buf) ==
  OnInputSet(p, decInput(buf), setRemoteInput(rb[p], decInput(buf).frame, decInput(buf).mask))

\* a handler that takes the frame of a StateHash as an acknowledgement
OnStateHashAck(p, buf) ==
  /\ lastRemoteAck' = [lastRemoteAck EXCEPT ![p] = decStateHash(buf).frame]
  /\ UNCHANGED <<rb, vm, thrown, lastEvent, lastSentLocalFrame, lost, startFrame>>

\* dc.onmessage of the live channel for a StateHash datagram: nothing is done
OnStateHash(p, buf) ==
  UNCHANGED <<rb, vm, thrown, lastRemoteAck, lastEvent, lastSentLocalFrame,
              lost, startFrame>>

(***************************************************************************)
(* Actions.                                                                *)
(***************************************************************************)
LocalMasks == {0, RIGHT}
RemoteMasks == {0, LEFT}
Acks == {7}
RollDists == {0 - 1, 0, H - 2, H - 1, H}

\* frames an incoming Input may carry: around latest, around the edge of the
\* history window, and frame 0
InjFrames(p) == {U16(rb[p].latest - d) : d \in RollDists} \cup {0}

\* the 60 Hz loop runs one step on page p
loopTick(p, e, local, max) ==
  /\ nTicks[p] < max
  /\ nTicks' = [nTicks EXCEPT ![p] = @ + 1]
  /\ Tick(p, local)
  /\ acc' = [acc EXCEPT ![p] = @ + e - TickLen]
  /\ UNCHANGED <<nInject, playerRole, flagVars, vmSrc, assetVars, nClicks, gen,
                 heldGen, wiped>>

\* the pass of the loop that finds a gating flag down: acc = 0; break
loopGated(p) ==
  /\ acc' = [acc EXCEPT ![p] = 0]
  /\ lastEvent' = [lastEvent EXCEPT ![p] =
       [kind |-> "gated", frame |-> 0, mask |-> 0, pre |-> rb[p],
        preVm |-> vm[p], rolled |-> FALSE, threw |-> FALSE]]
  /\ UNCHANGED <<rb, vm, lastRemoteAck, lastSentLocalFrame, net, thrown, lost,
                 startFrame, nTicks, nInject, playerRole, flagVars, vmSrc,
                 assetVars, nClicks, ghostVars>>

\* the animation-frame callback loop(now), e half ticks after the last one
\* (e <= TickLen, so the while loop makes at most one pass): acc grows by e;
\* below one tick nothing runs, otherwise the pass is gated or simulates
loop(p, e, local, max) ==
  IF acc[p] + e < TickLen
  THEN /\ acc' = [acc EXCEPT ![p] = @ + e]
       /\ UNCHANGED <<liveVars, playerRole, flagVars, vmSrc, assetVars, nClicks,
                      ghostVars>>
  ELSE IF ~Gate(p) THEN loopGated(p)
  ELSE loopTick(p, e, local, max)

\* a callback one tick after the last one
DoTick(p, local, max) == loop(p, TickLen, local, max)

\* an Input datagram from outside reaches page p
Inject(p, f, m, a) ==
  /\ nInject[p] < MaxInject
  /\ nInject' = [nInject EXCEPT ![p] = @ + 1]
  /\ OnInput(p, encInput(f, m, a))
  /\ UNCHANGED <<net, nTicks, playerRole, flagVars, acc, vmSrc, assetVars,
                 nClicks, ghostVars>>

\* the live channel delivers a datagram to page p
Deliver(p, buf) ==
  /\ buf \in net[p]
  /\ net' = [net EXCEPT ![p] = @ \ {buf}]
  /\ IF buf.t = "Input" THEN OnInput(p, buf) ELSE OnStateHash(p, buf)
  /\ sentUnder' = [sentUnder EXCEPT ![p] = {x \in @ : x[1] # buf}]
  /\ heldGen' = [heldGen EXCEPT ![p] =
       IF buf.t = "Input"
       THEN @ \cup {<<decInput(buf).frame, x[2]>> : x \in {y \in sentUnder[p] : y[1] = buf}}
       ELSE @]
  /\ UNCHANGED <<nTicks, nInject, playerRole, flagVars, acc, vmSrc, assetVars,
                 nClicks, gen, wiped>>

\* the live channel (unordered, no retransmit) drops a datagram
Lose(p, buf) ==
  /\ buf \in net[p]
  /\ net' = [net EXCEPT ![p] = @ \ {buf}]
  /\ lost' = TRUE
  /\ sentUnder' = [sentUnder EXCEPT ![p] = {x \in @ : x[1] # buf}]
  /\ UNCHANGED <<rb, vm, lastRemoteAck, lastSentLocalFrame, thrown, startFrame,
                 nTicks, nInject, lastEvent, playerRole, flagVars, acc, vmSrc,
                 assetVars, nClicks, gen, heldGen, wiped>>

(***************************************************************************)
(* Spec: one page (page 1, in either role) ticking while Input datagrams   *)
(* with arbitrary frames reach it.  It starts freshly constructed, under   *)
(* either script, or after IdleStart idle ticks under the walk script.     *)
(***************************************************************************)
\* page 1 has run k idle ticks in role role1, page 2 none; `heard` tells
\* whether the k idle Inputs of page 1 have reached page 2
Start(src, k, role1, heard) ==
  [rb |-> <<IdleEngine(k, role1),
            IF ~heard THEN NewRollback(seed, 3 - role1)
            ELSE IF role1 = 1
            THEN [NewRollback(seed, 2) EXCEPT !.wr1 = 1 .. k]
            ELSE [NewRollback(seed, 1) EXCEPT !.wr2 = 1 .. k]>>,
   vm |-> <<IdleVm(src, k), LoadSource(src)>>,
   ack |-> <<0, IF heard /\ k > 0 THEN k - 1 ELSE 0>>,
   k |-> <<k, 0>>]

InitWith(st) ==
  /\ rb = [p \in Peers |-> st.rb[p]]
  /\ vm = [p \in Peers |-> st.vm[p]]
  /\ lastRemoteAck = [p \in Peers |-> st.ack[p]]
  /\ lastSentLocalFrame = [p \in Peers |-> st.k[p]]
  /\ net = [p \in Peers |-> {}]
  /\ thrown = [p \in Peers |-> FALSE]
  /\ lost = FALSE
  /\ startFrame = [p \in Peers |-> st.k[p]]
  /\ nTicks = [p \in Peers |-> 0]
  /\ nInject = [p \in Peers |-> 0]
  /\ lastEvent = [p \in Peers |-> NoEvent(st.rb[p], st.vm[p])]
  /\ playerRole = [p \in Peers |-> st.rb[p].localPlayerNumber]
  /\ gameStarted = [p \in Peers |-> TRUE]
  /\ hasAssetsLoaded = [p \in Peers |-> TRUE]
  /\ hasScriptLoaded = [p \in Peers |-> TRUE]
  /\ acc = [p \in Peers |-> 0]
  /\ vmSrc = [p \in Peers |-> st.vm[p].src]
  /\ cas = [p \in Peers |-> casPut(EmptyCas, hashOf(GlbFile), GlbFile)]
  /\ lastManifest = [p \in Peers |-> MeshManifest(GlbFile)]
  /\ anet = [p \in Peers |-> <<>>]
  /\ stream = [p \in Peers |-> NoStream]
  /\ buffered = [p \in Peers |-> 0]
  /\ nClicks = 0
  /\ gen = [p \in Peers |-> 1]
  /\ sentUnder = [p \in Peers |-> {}]
  /\ heldGen = [p \in Peers |-> {}]
  /\ wiped = [p \in Peers |-> {}]

Init ==
  \E src \in Scripts, k \in {0, IdleStart}, role \in {1, 2} :
    /\ src \in Stateless \/ k = 0
    /\ InitWith(Start(src, k, role, FALSE))

Next ==
  \/ \E m \in LocalMasks : DoTick(1, m, MaxTicks)
  \/ \E f \in InjFrames(1), m \in RemoteMasks, a \in Acks : Inject(1, f, m, a)

Spec == Init /\ [][Next]_vars

(***************************************************************************)
(* SpecWrap: the same page after WrapStart idle ticks, just before the     *)
(* 16-bit frame counter reaches 65535.                                     *)
(***************************************************************************)
InitWrap == \E role \in {1, 2} : InitWith(Start("walk", WrapStart, role, FALSE))

SpecWrap == InitWrap /\ [][Next]_vars

(***************************************************************************)
(* SpecPeers: two pages (roles 1 and 2) under the walk script, connected   *)
(* by the unordered, lossy live channel.  Page 1 starts either together    *)
(* with page 2 or IdleStart idle frames ahead of it (the loop of page 2 did *)
(* not run meanwhile, and the idle Inputs of page 1 have reached page 2).  *)
(***************************************************************************)
InitPeers == \E k \in {0, IdleStart} : InitWith(Start("walk", k, 1, TRUE))

NextPeers ==
  \/ \E p \in Peers, m \in LocalMasks : DoTick(p, m, MaxPeerTicks)
  \/ \E p \in Peers : \E buf \in net[p] : Deliver(p, buf)
  \/ \E p \in Peers : \E buf \in net[p] : Lose(p, buf)

SpecPeers == InitPeers /\ [][NextPeers]_vars

(***************************************************************************)
(* SpecApi: the four mutating methods of the Rollback class of page 1      *)
(* called in any order with frames around latest, around the edge of the   *)
(* history window, and frame 0, always with a key held.                    *)
(***************************************************************************)
ApiFrames ==
  {U16(rb[1].latest + 1), rb[1].latest, U16(rb[1].latest - (H - 2)), 0}

\* simulateTo is asked for at most two frames at a time
SimTargets == {f \in ApiFrames \cup {U16(rb[1].latest + 2)} : f <= rb[1].latest + 2}

\* rollbackFrom is also asked for the frames whose resume slot has been reused
RollFrames == ApiFrames \cup {U16(rb[1].latest - (H - 1)), U16(rb[1].latest - H)}

\* a method call that ran to its end or threw, leaving engine r and module v
ApiDone(kind, f, m, r, v, threw) ==
  /\ nInject[1] < MaxCalls
  /\ nInject' = [nInject EXCEPT ![1] = @ + 1]
  /\ rb' = [rb EXCEPT ![1] = r]
  /\ vm' = [vm EXCEPT ![1] = v]
  /\ thrown' = [thrown EXCEPT ![1] = @ \/ threw]
  /\ lastEvent' = [lastEvent EXCEPT ![1] =
       [kind |-> kind, frame |-> f, mask |-> m, pre |-> rb[1], preVm |-> vm[1],
        rolled |-> kind = "rollbackFrom", threw |-> threw]]
  /\ UNCHANGED <<lastRemoteAck, lastSentLocalFrame, net, lost, startFrame, nTicks,
                 playerRole, flagVars, acc, vmSrc, assetVars, nClicks, ghostVars>>

ApiRan(kind, f, res) == ApiDone(kind, f, 0, res.rb, res.vm, res.threw)

ApiSetLocalInput(f, m) ==
  ApiDone("setLocalInput", f, m, setLocalInput(rb[1], f, m), vm[1], FALSE)

ApiSetRemoteInput(f, m) ==
  ApiDone("setRemoteInput", f, m, setRemoteInput(rb[1], f, m), vm[1], FALSE)

ApiSimulateTo(target) ==
  ApiRan("simulateTo", target, simulateTo(rb[1], vm[1], target))

ApiRollbackFrom(f) ==
  ApiRan("rollbackFrom", f, rollbackFrom(rb[1], vm[1], f))

NextApi ==
  \/ \E f \in ApiFrames : ApiSetLocalInput(f, RIGHT)
  \/ \E f \in ApiFrames : ApiSetRemoteInput(f, LEFT)
  \/ \E f \in SimTargets : ApiSimulateTo(f)
  \/ \E f \in RollFrames : ApiRollbackFrom(f)

SpecApi == Init /\ [][NextApi]_vars

(***************************************************************************)
(* SpecFar: SpecApi with rollbackFrom also asked for the frame two ahead   *)
(* of latest, whose resume frame latest + 1 has not been simulated.        *)
(***************************************************************************)
NextFar ==
  \/ NextApi
  \/ ApiRollbackFrom(U16(rb[1].latest + 2))

SpecFar == Init /\ [][NextFar]_vars

(***************************************************************************)
(* SpecTwin: two runs of the engine, one on each page, in the same role    *)
(* and under the same script, receiving the same method calls.  The page   *)
(* of the first run is new; the module of the second page has run another  *)
(* engine for PriorFrames frames before makeRollback built the engine of   *)
(* the run.                                                                *)
(***************************************************************************)
PriorFrames == 1

\* what a call leaves behind
Outcome(res) == [rb |-> res.rb, vm |-> res.vm, threw |-> res.threw]

\* a method call on engine r and module v
ApiCall(kind, f, m, r, v) ==
  IF kind = "setLocalInput"
  THEN [rb |-> setLocalInput(r, f, m), vm |-> v, threw |-> FALSE]
  ELSE IF kind = "setRemoteInput"
  THEN [rb |-> setRemoteInput(r, f, m), vm |-> v, threw |-> FALSE]
  ELSE Outcome(simulateTo(r, v, f))

\* the module of a page whose earlier engine ran k frames under `prior`
UsedModule(prior, role, k) ==
  simulateTo(NewRollback(seed, role), LoadSource(prior), k).vm

TwinStart(a, b) ==
  [rb |-> <<a.rb, b.rb>>, vm |-> <<a.vm, b.vm>>, ack |-> <<0, 0>>, k |-> <<0, 0>>]

InitTwin ==
  \E src \in Scripts, prior \in Scripts, role \in {1, 2} :
    InitWith(TwinStart(makeRollback(LoadSource(src), src, role),
                       makeRollback(UsedModule(prior, role, PriorFrames), src, role)))

TwinDone(kind, f, m, a, b) ==
  /\ nInject[1] < MaxCalls
  /\ nInject' = [nInject EXCEPT ![1] = @ + 1]
  /\ rb' = [p \in Peers |-> IF p = 1 THEN a.rb ELSE b.rb]
  /\ vm' = [p \in Peers |-> IF p = 1 THEN a.vm ELSE b.vm]
  /\ thrown' = [p \in Peers |-> thrown[p] \/ (IF p = 1 THEN a.threw ELSE b.threw)]
  /\ lastEvent' = [p \in Peers |->
       [kind |-> kind, frame |-> f, mask |-> m, pre |-> rb[p], preVm |-> vm[p],
        rolled |-> FALSE, threw |-> IF p = 1 THEN a.threw ELSE b.threw]]
  /\ UNCHANGED <<lastRemoteAck, lastSentLocalFrame, net, lost, startFrame, nTicks,
                 playerRole, flagVars, acc, vmSrc, assetVars, nClicks, ghostVars>>

\* the same call made in both runs
TwinCall(kind, f, m) ==
  TwinDone(kind, f, m, ApiCall(kind, f, m, rb[1], vm[1]),
           ApiCall(kind, f, m, rb[2], vm[2]))

NextTwin ==
  \/ \E f \in ApiFrames : TwinCall("setLocalInput", f, RIGHT)
  \/ \E f \in ApiFrames : TwinCall("setRemoteInput", f, LEFT)
  \/ \E f \in SimTargets : TwinCall("simulateTo", f, 0)

SpecTwin == InitTwin /\ [][NextTwin]_vars

(***************************************************************************)
(* The assets channel (reliable, ordered) and the buttons.                 *)
(***************************************************************************)
\* bufferedAmount at which waitDrain waits: 1 << 20 bytes, scaled down to the
\* size of the payloads used here
DrainMark == 16

\* every listed hash, whether the store has it or not
RECURSIVE NeedAll(_, _, _)
NeedAll(chunks, c, i) ==
  IF i > Len(chunks) THEN <<>> ELSE <<chunks[i].hash>> \o NeedAll(chunks, c, i + 1)

\* the hashes of the listed chunks the store lacks, in manifest order
RECURSIVE Need(_, _, _)
Need(chunks, c, i) ==
  IF i > Len(chunks) THEN <<>>
  ELSE (IF casHas(c, chunks[i].hash) THEN <<>> ELSE <<chunks[i].hash>>)
       \o Need(chunks, c, i + 1)

\* m.chunks.find((c) => c.mime === "image/png"): its index, 0 when there is none
RECURSIVE FindPng(_, _)
FindPng(chunks, i) ==
  IF i > Len(chunks) THEN 0
  ELSE IF chunks[i].mime = Png THEN i ELSE FindPng(chunks, i + 1)

\* tryAssembleAndLoad reaches viewer.loadFromManifest, which loads the PNG and
\* the atlas of a sprite and the first chunk of a mesh
Assembles(m, c) ==
  IF m.type = "sprite"
  THEN /\ FindPng(m.chunks, 1) # 0
       /\ m.meta # Absent
       /\ casHas(c, m.chunks[FindPng(m.chunks, 1)].hash)
       /\ casHas(c, m.meta.atlas)
  ELSE /\ Len(m.chunks) > 0
       /\ casHas(c, m.chunks[1].hash)

\* tryAssembleAndLoad of a mesh manifest without chunks reads entry.hash of
\* undefined
AssembleThrows(m) == m.type # "sprite" /\ Len(m.chunks) = 0

\* tryAssembleAndLoad(m) on page p with store c
tryAssembleAndLoad(p, m, c) ==
  /\ lastManifest' = [lastManifest EXCEPT ![p] = m]
  /\ hasAssetsLoaded' = [hasAssetsLoaded EXCEPT ![p] = @ \/ Assembles(m, c)]
  /\ thrown' = [thrown EXCEPT ![p] = @ \/ AssembleThrows(m)]

\* a streamChunks that returns at the first hash the store lacks
RECURSIVE streamRunAbort(_, _)
streamRunAbort(c, store) ==
  IF c.todo = <<>> \/ ~casHas(store, Head(c.todo))
  THEN [c EXCEPT !.todo = <<>>, !.waiting = FALSE]
  ELSE IF c.buffered + byteLength(encChunk(Head(c.todo), 0, casGet(store, Head(c.todo))))
          < DrainMark
  THEN streamRunAbort([todo |-> Tail(c.todo), waiting |-> FALSE,
                       out |-> Append(c.out, encChunk(Head(c.todo), 0,
                                                      casGet(store, Head(c.todo)))),
                       buffered |-> c.buffered +
                         byteLength(encChunk(Head(c.todo), 0, casGet(store, Head(c.todo))))],
                      store)
  ELSE [todo |-> Tail(c.todo), waiting |-> TRUE,
        out |-> Append(c.out, encChunk(Head(c.todo), 0, casGet(store, Head(c.todo)))),
        buffered |-> c.buffered +
          byteLength(encChunk(Head(c.todo), 0, casGet(store, Head(c.todo))))]

\* streamChunks from the point it has reached: c.todo are the hashes left,
\* c.out the frames sent, c.buffered the bufferedAmount.  A hash the store
\* lacks is skipped; after each send waitDrain returns at once below DrainMark
\* and otherwise waits for bufferedamountlow.
RECURSIVE streamRun(_, _)
streamRun(c, store) ==
  IF c.todo = <<>> THEN [c EXCEPT !.waiting = FALSE]
  ELSE IF ~casHas(store, Head(c.todo))
  THEN streamRun([c EXCEPT !.todo = Tail(@), !.waiting = FALSE], store)
  ELSE IF c.buffered + byteLength(encChunk(Head(c.todo), 0, casGet(store, Head(c.todo))))
          < DrainMark
  THEN streamRun([todo |-> Tail(c.todo), waiting |-> FALSE,
                  out |-> Append(c.out, encChunk(Head(c.todo), 0,
                                                 casGet(store, Head(c.todo)))),
                  buffered |-> c.buffered +
                    byteLength(encChunk(Head(c.todo), 0, casGet(store, Head(c.todo))))],
                 store)
  ELSE [todo |-> Tail(c.todo), waiting |-> TRUE,
        out |-> Append(c.out, encChunk(Head(c.todo), 0, casGet(store, Head(c.todo)))),
        buffered |-> c.buffered +
          byteLength(encChunk(Head(c.todo), 0, casGet(store, Head(c.todo))))]

\* the listeners of bufferedamountlow run in the order they were added:
\* c.cor are the waiting calls not yet visited, c.stay those whose listener
\* found bufferedAmount at DrainMark or above, c.again those that went on and
\* wait once more
RECURSIVE resumeAll(_, _)
resumeNext(c, r, store) ==
  resumeAll([cor |-> Tail(c.cor), stay |-> c.stay,
             again |-> IF r.waiting THEN Append(c.again, r.todo) ELSE c.again,
             out |-> r.out, buffered |-> r.buffered], store)

resumeAll(c, store) ==
  IF c.cor = <<>> THEN c
  ELSE IF c.buffered < DrainMark
  THEN resumeNext(c, streamRun([todo |-> Head(c.cor), waiting |-> FALSE,
                                out |-> c.out, buffered |-> c.buffered], store),
                  store)
  ELSE resumeAll([c EXCEPT !.cor = Tail(@), !.stay = Append(@, Head(c.cor))], store)

\* assets channel, NeedChunks frame: await streamChunks(hashes, dc)
OnNeedChunks(p, res) ==
  /\ stream' = [stream EXCEPT ![p] = IF res.waiting THEN Append(@, res.todo) ELSE @]
  /\ buffered' = [buffered EXCEPT ![p] = res.buffered]
  /\ anet' = [anet EXCEPT ![Other(p)] = @ \o res.out, ![p] = Tail(@)]

\* bufferedamountlow on page p
OnBufferedAmountLow(p, res) ==
  /\ stream' = [stream EXCEPT ![p] = res.stay \o res.again]
  /\ buffered' = [buffered EXCEPT ![p] = res.buffered]
  /\ anet' = [anet EXCEPT ![Other(p)] = @ \o res.out]

\* the part of resetRollbackWithScript and of the three script paths they
\* share: vmSrc = src; ok = vmGlobal.loadSource(vmSrc);
\* resetRollbackWithScript(); hasScriptLoaded = ok
ScriptApply(p, src, kind, mk) ==
  /\ vmSrc' = [vmSrc EXCEPT ![p] = src]
  /\ rb' = [rb EXCEPT ![p] = mk.rb]
  /\ vm' = [vm EXCEPT ![p] = mk.vm]
  /\ hasScriptLoaded' = [hasScriptLoaded EXCEPT ![p] = Compiles(src)]
  /\ lastEvent' = [lastEvent EXCEPT ![p] =
       [kind |-> kind, frame |-> 0, mask |-> 0, pre |-> rb[p], preVm |-> vm[p],
        rolled |-> FALSE, threw |-> FALSE]]
  /\ startFrame' = [startFrame EXCEPT ![p] = 0]
  /\ gen' = [gen EXCEPT ![p] = @ + 1]
  /\ wiped' = [wiped EXCEPT ![p] = @ \cup {x \in heldGen[p] : x[2] > gen[p]}]
  /\ heldGen' = [heldGen EXCEPT ![p] = {}]

\* a script path that loads the source and keeps the engine
applyScriptKeep(p, src, kind) ==
  ScriptApply(p, src, kind, [rb |-> rb[p], vm |-> loadSource(vm[p], src)])

applyScript(p, src, kind) ==
  ScriptApply(p, src, kind, makeRollback(loadSource(vm[p], src), src, playerRole[p]))

\* assets channel, Manifest frame
OnManifest(p, m) ==
  IF Need(m.chunks, cas[p], 1) # <<>>
  THEN /\ lastManifest' = [lastManifest EXCEPT ![p] = m]
       /\ anet' = [anet EXCEPT ![p] = Tail(@),
                               ![Other(p)] = Append(@, encNeedChunks(Need(m.chunks, cas[p], 1)))]
       /\ UNCHANGED <<hasAssetsLoaded, thrown>>
  ELSE /\ tryAssembleAndLoad(p, m, cas[p])
       /\ anet' = [anet EXCEPT ![p] = Tail(@)]

\* what the Chunk branch leaves behind: the hash it stored, and whether it
\* went on to viewer.loadFromManifest
ChunkEvent(p, hash, loaded) ==
  [kind |-> "chunk", frame |-> 0, mask |-> 0, pre |-> rb[p], preVm |-> vm[p],
   rolled |-> FALSE, threw |-> FALSE, hash |-> hash, loaded |-> loaded]

\* assets channel, Chunk frame: cas.put(hash, data), then tryAssembleAndLoad
\* of the last manifest if there is one
OnChunk(p, d) ==
  /\ cas' = [cas EXCEPT ![p] = casPut(@, d.hash, d.data)]
  /\ IF lastManifest[p] # Absent
     THEN /\ tryAssembleAndLoad(p, lastManifest[p], casPut(cas[p], d.hash, d.data))
          /\ lastEvent' = [lastEvent EXCEPT ![p] =
               ChunkEvent(p, d.hash,
                          Assembles(lastManifest[p], casPut(cas[p], d.hash, d.data)))]
     ELSE /\ lastEvent' = [lastEvent EXCEPT ![p] = ChunkEvent(p, d.hash, FALSE)]
          /\ UNCHANGED <<lastManifest, hasAssetsLoaded, thrown>>
  /\ anet' = [anet EXCEPT ![p] = Tail(@)]

\* dc.onmessage of the assets channel for the frame at the head of the queue
DeliverAsset(p) ==
  /\ anet[p] # <<>>
  /\ LET buf == Head(anet[p]) IN
     IF buf.t = "Manifest"
     THEN /\ OnManifest(p, decManifest(buf))
          /\ UNCHANGED <<rb, vm, lastRemoteAck, lastSentLocalFrame, net, lost,
                         startFrame, nTicks, nInject, lastEvent, playerRole,
                         gameStarted, hasScriptLoaded, acc, vmSrc, cas, stream,
                         buffered, nClicks, ghostVars>>
     ELSE IF buf.t = "NeedChunks"
     THEN /\ OnNeedChunks(p, streamRun([todo |-> decNeedChunks(buf), waiting |-> FALSE,
                                        out |-> <<>>, buffered |-> buffered[p]], cas[p]))
          /\ UNCHANGED <<liveVars, playerRole, flagVars, acc, vmSrc, cas,
                         lastManifest, nClicks, ghostVars>>
     ELSE IF buf.t = "Chunk"
     THEN /\ OnChunk(p, decChunk(buf))
          /\ UNCHANGED <<rb, vm, lastRemoteAck, lastSentLocalFrame, net, lost,
                         startFrame, nTicks, nInject, playerRole,
                         gameStarted, hasScriptLoaded, acc, vmSrc, stream,
                         buffered, nClicks, ghostVars>>
     ELSE IF buf.t = "ScriptPush"
     THEN /\ applyScript(p, SourceOf(TextDecode(decScriptPush(buf).bytes)), "scriptPush")
          /\ anet' = [anet EXCEPT ![p] = Tail(@)]
          /\ UNCHANGED <<lastRemoteAck, lastSentLocalFrame, net, thrown, lost,
                         nTicks, nInject, playerRole, gameStarted, hasAssetsLoaded,
                         acc, cas, lastManifest, stream, buffered, nClicks,
                         sentUnder>>
     ELSE /\ gameStarted' = [gameStarted EXCEPT ![p] = TRUE]
          /\ lastEvent' = [lastEvent EXCEPT ![p] =
               [kind |-> "recvGameStart", frame |-> 0, mask |-> 0, pre |-> rb[p],
                preVm |-> vm[p], rolled |-> FALSE, threw |-> FALSE]]
          /\ anet' = [anet EXCEPT ![p] = Tail(@)]
          /\ UNCHANGED <<rb, vm, lastRemoteAck, lastSentLocalFrame, net, thrown,
                         lost, startFrame, nTicks, nInject, playerRole,
                         hasAssetsLoaded, hasScriptLoaded, acc, vmSrc, cas,
                         lastManifest, stream, buffered, nClicks, ghostVars>>

\* the transport takes n bytes out of the buffer of page p.  bufferedamountlow
\* fires when bufferedAmount goes from above the threshold to the threshold or
\* below; the listener of waitDrain resolves only below DrainMark
Drain(p, n) ==
  /\ 1 <= n /\ n <= buffered[p]
  /\ IF buffered[p] > DrainMark /\ buffered[p] - n <= DrainMark
     THEN OnBufferedAmountLow(p, resumeAll([cor |-> stream[p], stay |-> <<>>,
                                            again |-> <<>>, out |-> <<>>,
                                            buffered |-> buffered[p] - n], cas[p]))
     ELSE /\ buffered' = [buffered EXCEPT ![p] = @ - n]
          /\ UNCHANGED <<stream, anet>>
  /\ UNCHANGED <<liveVars, playerRole, flagVars, acc, vmSrc, cas, lastManifest,
                 nClicks, ghostVars>>

(***************************************************************************)
(* SpecGame: two connected pages, just loaded or in play.  Page 1 presses   *)
(* Game Start or Run Local with a script that compiles or one that does    *)
(* not; manifests, chunks and scripts travel on the assets channel, Inputs *)
(* on the live channel.                                                    *)
(***************************************************************************)
\* clicks and simulated frames of the two pages together
MaxGameSteps == 2
Budget == nClicks + nTicks[1] + nTicks[2] < MaxGameSteps
GameSources == {"count", Bad}
Elapsed == {1, TickLen}

\* the frames Game Start puts on the open assets channel: the Manifest of the
\* selected GLB, the ScriptPush, and the GameStart frame when the protocol
\* module has one
StartFrames(src, glb, withStart) ==
  <<encManifest(MeshManifest(glb)),
    encScriptPush(LogicRhai, TextEncode(SourceText(src)))>>
  \o (IF withStart THEN <<encGameStart>> ELSE <<>>)

\* btnGameStart.onclick with a GLB selected: sendSelectedAsset (store the
\* file, send its Manifest, load it), apply the script, send ScriptPush and
\* GameStart, gameStarted = true
GameStartClick(p, src, glb, withStart) ==
  /\ Budget
  /\ nClicks' = nClicks + 1
  /\ cas' = [cas EXCEPT ![p] = casPut(@, hashOf(glb), glb)]
  /\ tryAssembleAndLoad(p, MeshManifest(glb), casPut(cas[p], hashOf(glb), glb))
  /\ applyScript(p, src, "gameStart")
  /\ anet' = [anet EXCEPT ![Other(p)] =
                IF ChannelsOpen THEN @ \o StartFrames(src, glb, withStart) ELSE @]
  /\ gameStarted' = [gameStarted EXCEPT ![p] = TRUE]
  /\ UNCHANGED <<lastRemoteAck, lastSentLocalFrame, net, lost, nTicks, nInject,
                 playerRole, acc, stream, buffered, sentUnder>>

\* btnRunLocal.onclick
RunLocal(p, src) ==
  /\ Budget
  /\ nClicks' = nClicks + 1
  /\ applyScript(p, src, "runLocal")
  /\ UNCHANGED <<lastRemoteAck, lastSentLocalFrame, net, thrown, lost, nTicks,
                 nInject, playerRole, gameStarted, hasAssetsLoaded, acc,
                 assetVars, sentUnder>>

\* both pages just loaded and connected: the engines were built before the
\* roles were known, under the script the text area starts with
LoadedAs(ev, roles) ==
  /\ rb = [p \in Peers |-> NewRollback(seed, 1)]
  /\ vm = [p \in Peers |-> LoadSource("walk")]
  /\ lastRemoteAck = [p \in Peers |-> 0]
  /\ lastSentLocalFrame = [p \in Peers |-> 0]
  /\ net = [p \in Peers |-> {}]
  /\ thrown = [p \in Peers |-> FALSE]
  /\ lost = FALSE
  /\ startFrame = [p \in Peers |-> 0]
  /\ nTicks = [p \in Peers |-> 0]
  /\ nInject = [p \in Peers |-> 0]
  /\ lastEvent = ev
  /\ playerRole = roles
  /\ gameStarted = [p \in Peers |-> FALSE]
  /\ hasAssetsLoaded = [p \in Peers |-> FALSE]
  /\ hasScriptLoaded = [p \in Peers |-> FALSE]
  /\ acc = [p \in Peers |-> 0]
  /\ vmSrc = [p \in Peers |-> "walk"]
  /\ cas = [p \in Peers |-> EmptyCas]
  /\ lastManifest = [p \in Peers |-> Absent]
  /\ anet = [p \in Peers |-> <<>>]
  /\ stream = [p \in Peers |-> NoStream]
  /\ buffered = [p \in Peers |-> 0]
  /\ nClicks = 0
  /\ gen = [p \in Peers |-> 0]
  /\ sentUnder = [p \in Peers |-> {}]
  /\ heldGen = [p \in Peers |-> {}]
  /\ wiped = [p \in Peers |-> {}]

LoadedWith(ev) == LoadedAs(ev, [p \in Peers |-> p])

InitLoaded ==
  LoadedWith([p \in Peers |-> NoEvent(NewRollback(seed, 1), LoadSource("walk"))])

\* loop(now) on page p with the Right key held
GameLoop(p, e) ==
  /\ acc[p] + e >= TickLen /\ Gate(p) => Budget
  /\ loop(p, e, RIGHT, MaxGameSteps)

\* the pages have just loaded, or they are in play under the walk script
InitGame == InitLoaded \/ InitWith(Start("walk", 0, 1, FALSE))

NextGame ==
  \/ \E src \in GameSources, withStart \in BOOLEAN :
       GameStartClick(1, src, GlbFile, withStart)
  \/ \E src \in GameSources : RunLocal(1, src)
  \/ \E p \in Peers : DeliverAsset(p)
  \/ \E p \in Peers : Drain(p, buffered[p])
  \/ \E p \in Peers, e \in Elapsed : GameLoop(p, e)
  \/ \E p \in Peers : \E buf \in net[p] : Deliver(p, buf)

SpecGame == InitGame /\ [][NextGame]_vars

(***************************************************************************)
(* SpecRoles: two pages that have just loaded and have no connection yet.  *)
(* Page 1 may click Create Offer and page 2 Create Answer, before or after *)
(* Game Start; a page in play simulates with or without a peer.            *)
(***************************************************************************)
\* btnOffer.onclick: playerRole = 1
ClickOffer(p) ==
  /\ playerRole' = [playerRole EXCEPT ![p] = 1]
  /\ UNCHANGED <<liveVars, flagVars, acc, vmSrc, assetVars, nClicks, ghostVars>>

\* btnAnswer.onclick: playerRole = 2
ClickAnswer(p) ==
  /\ playerRole' = [playerRole EXCEPT ![p] = 2]
  /\ UNCHANGED <<liveVars, flagVars, acc, vmSrc, assetVars, nClicks, ghostVars>>

InitRoles ==
  LoadedAs([p \in Peers |-> NoEvent(NewRollback(seed, 1), LoadSource("walk"))],
           [p \in Peers |-> Undefined])

NextRoles ==
  \/ ClickOffer(1)
  \/ ClickAnswer(2)
  \/ \E p \in Peers : GameStartClick(p, "walk", GlbFile, TRUE)
  \/ \E p \in Peers : DeliverAsset(p)
  \/ \E p \in Peers, e \in Elapsed : GameLoop(p, e)
  \/ \E p \in Peers : \E buf \in net[p] : Deliver(p, buf)

SpecRoles == InitRoles /\ [][NextRoles]_vars

(***************************************************************************)
(* SpecAssets: the assets channel between two pages that have just loaded. *)
(* Page 1 sends the selected GLB or the selected sprite; page 2 also gets  *)
(* frames from a peer that is not this program: a mesh manifest that lists *)
(* a second chunk, and a Chunk whose payload is not the one its hash       *)
(* names.                                                                  *)
(***************************************************************************)
MaxSends == 2
MaxAssetInject == 1

\* sendSelectedAsset after the files are read and hashed: store them, send
\* the Manifest on the open channel, lastManifest = m, tryAssembleAndLoad(m)
SendFiles(p, m, store) ==
  /\ nClicks < MaxSends
  /\ nClicks' = nClicks + 1
  /\ cas' = [cas EXCEPT ![p] = store]
  /\ anet' = [anet EXCEPT ![Other(p)] = Append(@, encManifest(m))]
  /\ tryAssembleAndLoad(p, m, store)
  /\ UNCHANGED <<rb, vm, lastRemoteAck, lastSentLocalFrame, net, lost, startFrame,
                 nTicks, nInject, lastEvent, playerRole, gameStarted,
                 hasScriptLoaded, acc, vmSrc, stream, buffered, ghostVars>>

\* btnSendAsset.onclick in 3d mode and in 2d mode
SendAsset(p, mode) ==
  IF mode = "3d"
  THEN SendFiles(p, MeshManifest(GlbFile), casPut(cas[p], hashOf(GlbFile), GlbFile))
  ELSE SendFiles(p, SpriteManifest(PngFile, AtlasFile),
                 casPut(casPut(cas[p], hashOf(PngFile), PngFile),
                        hashOf(AtlasFile), AtlasFile))

\* a mesh manifest whose second chunk is the sprite sheet
TwoChunkMesh ==
  [MeshManifest(GlbFile) EXCEPT !.chunks = Append(@, ChunkOf(PngFile, Png))]

OutsideFrames ==
  {encManifest(TwoChunkMesh), encChunk(hashOf(GlbFile), 0, AtlasFile)}

\* a frame of another sender enters the queue towards page p
InjectAsset(p, buf) ==
  /\ nInject[p] < MaxAssetInject
  /\ nInject' = [nInject EXCEPT ![p] = @ + 1]
  /\ anet' = [anet EXCEPT ![p] = Append(@, buf)]
  /\ UNCHANGED <<rb, vm, lastRemoteAck, lastSentLocalFrame, net, thrown, lost,
                 startFrame, nTicks, lastEvent, playerRole, flagVars, acc, vmSrc,
                 cas, lastManifest, stream, buffered, nClicks, ghostVars>>

\* the transport takes one byte, everything above DrainMark, or everything
DrainSteps(p) ==
  {n \in {1, buffered[p] - DrainMark, buffered[p]} : 1 <= n /\ n <= buffered[p]}

NextAssets ==
  \/ \E mode \in {"3d", "2d"} : SendAsset(1, mode)
  \/ \E buf \in OutsideFrames : InjectAsset(2, buf)
  \/ \E p \in Peers : DeliverAsset(p)
  \/ \E p \in Peers : \E n \in DrainSteps(p) : Drain(p, n)

SpecAssets == InitLoaded /\ [][NextAssets]_vars

(***************************************************************************)
(* SpecStream: the same two pages without the foreign frames.  The assets  *)
(* channel is reliable and ordered, so a frame in flight is delivered, and *)
(* the transport keeps taking bytes out of a buffer that is not empty.     *)
(***************************************************************************)
DeliverSome == \E p \in Peers : DeliverAsset(p)
DrainSome == \E p \in Peers : \E n \in DrainSteps(p) : Drain(p, n)

NextStream ==
  \/ \E mode \in {"3d", "2d"} : SendAsset(1, mode)
  \/ DeliverSome
  \/ DrainSome

SpecStream ==
  InitLoaded /\ [][NextStream]_vars /\ WF_vars(DeliverSome) /\ WF_vars(DrainSome)

(***************************************************************************)
(* SpecCodec: page 1 encodes one message, page 2 decodes the frame.  The   *)
(* messages are the values the wire layout can carry: strings of one-byte  *)
(* and two-byte characters, payloads of low and high bytes, 16-bit frames  *)
(* and masks, 32-bit offsets and hashes (a hash is held as the int32 with  *)
(* the same bits).                                                         *)
(***************************************************************************)
MaxStr == 2
MaxBytes == 2
MaxNeed == 2

SeqsUpTo(S, n) == UNION {[1 .. k -> S] : k \in 0 .. n}

\* "a" and U+00E9
Strings == SeqsUpTo({97, 233}, MaxStr)
Payloads == SeqsUpTo({0, 255}, MaxBytes)
Offsets == {0, 1, 65536, MaxInt32}
Words == {0, 1, 256, FrameMod - 1}
Hashes32 == {0, 1, MaxInt32, 0 - 1}
Manifests ==
  {MeshManifest(GlbFile), SpriteManifest(PngFile, AtlasFile), TwoChunkMesh}

\* the encoder of each kind applied to the fields of the message
Encode(msg) ==
  CASE msg.t = "Manifest" -> encManifest(msg.v)
    [] msg.t = "NeedChunks" -> encNeedChunks(msg.v)
    [] msg.t = "Chunk" -> encChunk(msg.v.hash, msg.v.offset, msg.v.data)
    [] msg.t = "ScriptPush" -> encScriptPush(msg.v.name, msg.v.bytes)
    [] msg.t = "Input" -> encInput(msg.v.frame, msg.v.mask, msg.v.ack)
    [] OTHER -> encStateHash(msg.v.frame, msg.v.hash)

\* the decoder chosen by the type byte of the frame
Decode(buf) ==
  CASE buf.t = "Manifest" -> decManifest(buf)
    [] buf.t = "NeedChunks" -> decNeedChunks(buf)
    [] buf.t = "Chunk" -> decChunk(buf)
    [] buf.t = "ScriptPush" -> decScriptPush(buf)
    [] buf.t = "Input" -> decInput(buf)
    [] OTHER -> decStateHash(buf)

CodecStart(t, v) ==
  LoadedWith([p \in Peers |->
                IF p = 1 THEN [kind |-> "message", msg |-> [t |-> t, v |-> v]]
                ELSE NoEvent(NewRollback(seed, 1), LoadSource("walk"))])

InitCodec ==
  \/ \E m \in Manifests : CodecStart("Manifest", m)
  \/ \E hs \in SeqsUpTo(Strings, MaxNeed) : CodecStart("NeedChunks", hs)
  \/ \E h \in Strings, off \in Offsets, d \in Payloads :
       CodecStart("Chunk", [hash |-> h, offset |-> off, data |-> d])
  \/ \E n \in Strings, b \in Payloads :
       CodecStart("ScriptPush", [name |-> n, bytes |-> b])
  \/ \E f \in Words, m \in Words, a \in Words :
       CodecStart("Input", [frame |-> f, mask |-> m, ack |-> a])
  \/ \E f \in Words, h \in Hashes32 :
       CodecStart("StateHash", [frame |-> f, hash |-> h])

\* page 1 builds the frame
CodecEncode ==
  /\ lastEvent[1].kind = "message"
  /\ lastEvent' = [lastEvent EXCEPT ![1] =
                     [kind |-> "encoded", msg |-> @.msg, buf |-> Encode(@.msg)]]
  /\ UNCHANGED <<rb, vm, lastRemoteAck, lastSentLocalFrame, net, thrown, lost,
                 startFrame, nTicks, nInject, playerRole, flagVars, acc, vmSrc,
                 assetVars, nClicks, ghostVars>>

\* page 2 reads the frame
CodecDecode ==
  /\ lastEvent[1].kind = "encoded"
  /\ lastEvent[2].kind # "decoded"
  /\ lastEvent' = [lastEvent EXCEPT ![2] =
                     [kind |-> "decoded", out |-> Decode(lastEvent[1].buf)]]
  /\ UNCHANGED <<rb, vm, lastRemoteAck, lastSentLocalFrame, net, thrown, lost,
                 startFrame, nTicks, nInject, playerRole, flagVars, acc, vmSrc,
                 assetVars, nClicks, ghostVars>>

NextCodec == CodecEncode \/ CodecDecode

SpecCodec == InitCodec /\ [][NextCodec]_vars

(***************************************************************************)
(* SpecWire: the two live-channel messages built from arbitrary integers:  *)
(* negative ones, ones beyond 16 bits and the ends of the int32 range.     *)
(***************************************************************************)
WideInts ==
  {0 - MaxInt32 - 1, 0 - 65537, 0 - 1, 0, 65535, 65536, 65537, MaxInt32}
WideMasks == {0 - 1, LEFT, 65536 + RIGHT}
WideAcks == {0 - 1, 7, 65536}

InitWire ==
  \/ \E f \in WideInts, m \in WideMasks, a \in WideAcks :
       CodecStart("Input", [frame |-> f, mask |-> m, ack |-> a])
  \/ \E f \in WideInts, h \in WideInts :
       CodecStart("StateHash", [frame |-> f, hash |-> h])

SpecWire == InitWire /\ [][NextCodec]_vars

(***************************************************************************)
(* SpecServe: page 1 as the serving side.  It holds nothing, the GLB, the  *)
(* sprite or both, and one NeedChunks frame that asks for up to ServeLen of *)
(* the three files' hashes, in any order and with repeats, reaches it.     *)
(* Page 2 leaves the frames it gets in its queue.                          *)
(***************************************************************************)
ServeLen == 2

FileHashes == {hashOf(GlbFile), hashOf(PngFile), hashOf(AtlasFile)}

Requests == {encNeedChunks(hs) : hs \in SeqsUpTo(FileHashes, ServeLen)}

NextServe ==
  \/ \E mode \in {"3d", "2d"} : SendAsset(1, mode)
  \/ \E buf \in Requests : nInject[1] = 0 /\ InjectAsset(1, buf)
  \/ DeliverAsset(1)
  \/ \E n \in DrainSteps(1) : Drain(1, n)

SpecServe == InitLoaded /\ [][NextServe]_vars

(***************************************************************************)
(* SpecWalk: page 1 is player 1 and holds one combination of the arrow     *)
(* keys for WalkFrames ticks under the walk script, while no Input of the  *)
(* peer arrives.  The engine starts from the seed of makeRollback, or from *)
(* a seed that puts player 1 next to either end of the int32 range.        *)
(***************************************************************************)
WalkFrames == 60
HeldMasks == {0, RIGHT, LEFT, LEFT + RIGHT}

WalkSeeds ==
  {seed,
   [seed EXCEPT !.p1.x = MaxInt32 - WALK + 1],
   [seed EXCEPT !.p1.x = MinInt32 + WALK - 1]}

WalkStart(s0) ==
  [rb |-> <<NewRollback(s0, 1), NewRollback(seed, 2)>>,
   vm |-> <<LoadSource("walk"), LoadSource("walk")>>,
   ack |-> <<0, 0>>, k |-> <<0, 0>>]

InitWalk == \E s0 \in WalkSeeds : InitWith(WalkStart(s0))

\* one pass of the loop with the keys still held
WalkTick(m) ==
  /\ nTicks[1] = 0 \/ lastEvent[1].mask = m
  /\ DoTick(1, m, WalkFrames)

NextWalk == \E m \in HeldMasks : WalkTick(m)

SpecWalk == InitWalk /\ [][NextWalk]_vars

(***************************************************************************)
(* SpecQuiet: page 1, as player 1 or as player 2, ticks under a script     *)
(* that returns move(1) while Right is held and an empty command list      *)
(* otherwise; no Input of the peer arrives.                                *)
(***************************************************************************)
QuietFrames == 4

QuietStart(role) ==
  [rb |-> <<NewRollback(seed, role), NewRollback(seed, 3 - role)>>,
   vm |-> <<LoadSource("quiet"), LoadSource("quiet")>>,
   ack |-> <<0, 0>>, k |-> <<0, 0>>]

InitQuiet == \E role \in {1, 2} : InitWith(QuietStart(role))

QuietTick(m) == DoTick(1, m, QuietFrames)

NextQuiet == \E m \in {0, LEFT, RIGHT} : QuietTick(m)

SpecQuiet == InitQuiet /\ [][NextQuiet]_vars

(***************************************************************************)
(* SpecShort: a page in play under the walk script receives ScriptPush     *)
(* frames on the assets channel, whole ones and ones cut short behind the  *)
(* length field (shorter ones make getUint32 throw a RangeError before     *)
(* anything is assigned).                                                  *)
(***************************************************************************)
\* the frame without its last n bytes
CutShort(buf, n) == [buf EXCEPT !.body = SubSeq(@, 1, Len(@) - n)]

WholePushes == {encScriptPush(LogicRhai, SourceText(src)) : src \in Scripts}
ShortPushes == {CutShort(buf, 1) : buf \in WholePushes}

NextShort ==
  \/ \E m \in LocalMasks : DoTick(1, m, MaxTicks)
  \/ \E buf \in WholePushes \cup ShortPushes : InjectAsset(1, buf)
  \/ DeliverAsset(1)

InitShort == \E role \in {1, 2} : InitWith(Start("walk", 0, role, FALSE))

SpecShort == InitShort /\ [][NextShort]_vars

(***************************************************************************)
(* SpecHashIn: the page of Spec, reached by the peer's StateHash           *)
(* datagrams for its latest frame: one with the hash of its own snapshot   *)
(* and one with another hash.                                              *)
(***************************************************************************)
OtherHash(h) == IF h = MaxInt32 THEN 0 ELSE h + 1

HashesFor(r) ==
  {encStateHash(r.latest, hashState(getLatest(r))),
   encStateHash(r.latest, OtherHash(hashState(getLatest(r))))}

\* the peer's StateHash datagrams enter the live channel towards page p
InjectHash(p) ==
  /\ nInject[p] < MaxInject
  /\ nInject' = [nInject EXCEPT ![p] = @ + 1]
  /\ net' = [net EXCEPT ![p] = @ \cup HashesFor(rb[p])]
  /\ UNCHANGED <<rb, vm, lastRemoteAck, lastSentLocalFrame, thrown, lost,
                 startFrame, nTicks, lastEvent, playerRole, flagVars, acc, vmSrc,
                 assetVars, nClicks, ghostVars>>

NextHashIn ==
  \/ \E m \in LocalMasks : DoTick(1, m, MaxTicks)
  \/ InjectHash(1)
  \/ \E buf \in net[1] : Deliver(1, buf)

SpecHashIn == Init /\ [][NextHashIn]_vars

(***************************************************************************)
(* SpecPass: simulateTo of page 1 pass by pass.  A call clones the latest  *)
(* snapshot, makes one pass of its while loop per step as long as          *)
(* s.frame < target, and returns when the condition fails.  Nothing else   *)
(* runs on the page while the call is in progress.  The engine is a fresh  *)
(* one, one at frame 63, or one at frame 65534; the target is a plain      *)
(* number up to two frames ahead of latest.                                *)
(***************************************************************************)
MaxPasses == 4

\* the call of page 1 in progress, or its last call
Call == lastEvent[1]

InCall == Call.kind \in {"simBegin", "simPass"}

SimEvent(kind, target, pre, preVm, s, passes) ==
  [kind |-> kind, frame |-> target, mask |-> 0, pre |-> pre, preVm |-> preVm,
   rolled |-> FALSE, threw |-> FALSE, s |-> s, passes |-> passes]

\* let s = structuredClone(hist[latest % H])
SimBegin(target) ==
  /\ ~InCall
  /\ nInject[1] < MaxCalls
  /\ nInject' = [nInject EXCEPT ![1] = @ + 1]
  /\ lastEvent' = [lastEvent EXCEPT ![1] =
       SimEvent("simBegin", target, rb[1], vm[1], getLatest(rb[1]), 0)]
  /\ UNCHANGED <<rb, vm, lastRemoteAck, lastSentLocalFrame, net, thrown, lost,
                 startFrame, nTicks, playerRole, flagVars, acc, vmSrc, assetVars,
                 nClicks, ghostVars>>

SimPassDone(c) ==
  /\ rb' = [rb EXCEPT ![1] = c.rb]
  /\ vm' = [vm EXCEPT ![1] = c.vm]
  /\ lastEvent' = [lastEvent EXCEPT ![1] =
       SimEvent("simPass", Call.frame, Call.pre, Call.preVm, c.s, Call.passes + 1)]
  /\ UNCHANGED <<lastRemoteAck, lastSentLocalFrame, net, thrown, lost, startFrame,
                 nTicks, nInject, playerRole, flagVars, acc, vmSrc, assetVars,
                 nClicks, ghostVars>>

\* one pass of while (s.frame < target)
SimPass ==
  /\ InCall
  /\ Call.s.frame < Call.frame
  /\ Call.passes < MaxPasses
  /\ SimPassDone(simCommit([rb |-> rb[1], vm |-> vm[1], s |-> Call.s, threw |-> FALSE],
                           stepNext([rb |-> rb[1], vm |-> vm[1], s |-> Call.s,
                                     threw |-> FALSE],
                                    InputsFor(rb[1], U16(Call.s.frame + 1)))))

\* return s
SimReturn ==
  /\ InCall
  /\ ~(Call.s.frame < Call.frame)
  /\ lastEvent' = [lastEvent EXCEPT ![1] = [@ EXCEPT !.kind = "simReturn"]]
  /\ UNCHANGED <<rb, vm, lastRemoteAck, lastSentLocalFrame, net, thrown, lost,
                 startFrame, nTicks, nInject, playerRole, flagVars, acc, vmSrc,
                 assetVars, nClicks, ghostVars>>

PassTargets == {rb[1].latest - 1, rb[1].latest, rb[1].latest + 1, rb[1].latest + 2}

NextPass ==
  \/ \E target \in PassTargets : target >= 0 /\ SimBegin(target)
  \/ SimPass
  \/ SimReturn
  \/ \E f \in ApiFrames : ~InCall /\ ApiSetRemoteInput(f, LEFT)
  \/ \E f \in ApiFrames : ~InCall /\ ApiSetLocalInput(f, RIGHT)

InitPass == Init \/ InitWrap

SpecPass == InitPass /\ [][NextPass]_vars

(***************************************************************************)
(* SpecOnce: SpecStream with each asset sent at most once, so that a page  *)
(* receives each manifest at most once.                                    *)
(***************************************************************************)
NextOnce ==
  \/ ~casHas(cas[1], hashOf(GlbFile)) /\ SendAsset(1, "3d")
  \/ ~casHas(cas[1], hashOf(PngFile)) /\ SendAsset(1, "2d")
  \/ DeliverSome
  \/ DrainSome

SpecOnce == InitLoaded /\ [][NextOnce]_vars

(***************************************************************************)
(* SpecHeap: the engine's State objects as objects.  The heap is the list  *)
(* of the State objects made so far and an object is named by its place in *)
(* the list; the history ring holds such names.  The caller keeps the seed *)
(* object it gave to the constructor and every State that getLatest and    *)
(* simulateTo returned to it, and writes into them.  The page's record     *)
(* lastEvent[1] carries heap, hist, latest and the caller's objects.       *)
(***************************************************************************)
MaxObjs == 7

\* an engine that hands out the object itself
sameObject(heap, ref) == [heap |-> heap, ref |-> ref]

\* structuredClone(heap[ref]): a new object with the same contents
structuredClone(heap, ref) == [heap |-> Append(heap, heap[ref]), ref |-> Len(heap) + 1]

\* new Rollback(seedObj, ...): hist[seed.frame % H] = structuredClone(seedObj)
HeapNew(c) ==
  [kind |-> "heap", op |-> "new", heap |-> c.heap,
   hist |-> (c.heap[1].frame % H) :> c.ref, latest |-> c.heap[1].frame,
   seedRef |-> 1, held |-> {}, got |-> 0]

InitHeap ==
  LoadedWith([p \in Peers |->
                IF p = 1 THEN HeapNew(structuredClone(<<seed>>, 1))
                ELSE NoEvent(NewRollback(seed, 1), LoadSource("walk"))])

Hp == lastEvent[1]

\* getLatest(): structuredClone(hist[latest % H])
HeapGot(op, c, hist, latest) ==
  /\ lastEvent' = [lastEvent EXCEPT ![1] =
       [kind |-> "heap", op |-> op, heap |-> c.heap, hist |-> hist,
        latest |-> latest, seedRef |-> Hp.seedRef,
        held |-> Hp.held \cup {c.ref}, got |-> c.ref]]
  /\ UNCHANGED <<rb, lastRemoteAck, lastSentLocalFrame, net, thrown, lost,
                 startFrame, nTicks, nInject, playerRole, flagVars, acc, vmSrc,
                 assetVars, nClicks, ghostVars>>

HeapGetLatest ==
  /\ Len(Hp.heap) < MaxObjs
  /\ HeapGot("getLatest", structuredClone(Hp.heap, Hp.hist[Hp.latest % H]),
             Hp.hist, Hp.latest)
  /\ UNCHANGED vm

\* the loop of simulateTo on the working object c.ref: step writes into the
\* object, then hist[s.frame % H] = structuredClone(s)
HeapCommit(c, r) ==
  [heap |-> [c.heap EXCEPT ![c.ref] = r.s], ref |-> c.ref, hist |-> c.hist,
   latest |-> r.s.frame, vm |-> r.vm]

HeapStore(c, cl) ==
  [heap |-> cl.heap, ref |-> c.ref, latest |-> c.latest, vm |-> c.vm,
   hist |-> [k \in DOMAIN c.hist \cup {c.latest % H} |->
               IF k = c.latest % H THEN cl.ref ELSE c.hist[k]]]

HeapStep(c) ==
  HeapCommit(c, step(c.heap[c.ref], 0, 0, c.vm, collisionData))

RECURSIVE HeapSim(_, _)
HeapSim(c, target) ==
  IF c.heap[c.ref].frame < target
  THEN HeapSim(HeapStore(HeapStep(c), structuredClone(HeapStep(c).heap, c.ref)),
               target)
  ELSE c

HeapSimDone(c) ==
  /\ HeapGot("simulateTo", c, c.hist, c.latest)
  /\ vm' = [vm EXCEPT ![1] = c.vm]

\* simulateTo(latest + k): s = structuredClone(hist[latest % H]); the loop;
\* return s
HeapSimulateTo(k) ==
  /\ Len(Hp.heap) + k < MaxObjs
  /\ HeapSimDone(HeapSim([heap |-> structuredClone(Hp.heap, Hp.hist[Hp.latest % H]).heap,
                          ref |-> structuredClone(Hp.heap, Hp.hist[Hp.latest % H]).ref,
                          hist |-> Hp.hist, latest |-> Hp.latest, vm |-> vm[1]],
                         Hp.latest + k))

\* the caller writes into one of the objects it holds
CallerWrites(ref) ==
  /\ ref \in Hp.held \cup {Hp.seedRef}
  /\ Hp.heap[ref].p1.hp # 0
  /\ lastEvent' = [lastEvent EXCEPT ![1] =
       [@ EXCEPT !.op = "write", !.heap[ref].p1.hp = 0, !.got = ref]]
  /\ UNCHANGED <<rb, vm, lastRemoteAck, lastSentLocalFrame, net, thrown, lost,
                 startFrame, nTicks, nInject, playerRole, flagVars, acc, vmSrc,
                 assetVars, nClicks, ghostVars>>

NextHeap ==
  \/ HeapGetLatest
  \/ \E k \in 0 .. 2 : HeapSimulateTo(k)
  \/ \E ref \in 1 .. MaxObjs : CallerWrites(ref)

SpecHeap == InitHeap /\ [][NextHeap]_vars

(***************************************************************************)
(* SpecFight: an engine with collision data loaded.  The walk animation    *)
(* has a hitbox 16 pixels in front of the fighter and a narrow hurtbox,    *)
(* the idle animation only the hurtbox.  The seed gives each fighter an    *)
(* animation, its box flags and its hp; the local player of page 1 stands  *)
(* or walks towards the other one.                                         *)
(***************************************************************************)
FightFrames == 4

HurtBox == [x |-> 0, y |-> 0, width |-> 8, height |-> 16]
HitBox == [x |-> 16, y |-> 0, width |-> 16, height |-> 16]

AnimConfigs ==
  (Walk :> [hitboxes |-> <<HitBox>>, hurtboxes |-> <<HurtBox>>])
  @@ (Idle :> [hitboxes |-> <<>>, hurtboxes |-> <<HurtBox>>])

FightFighter(x0, anim, active, hp) ==
  [x |-> x0, vx |-> 0, hp |-> hp, anim |-> hashStr(anim),
   hitboxActive |-> active, hurtboxActive |-> active]

FightSeeds ==
  {[frame |-> 0,
    p1 |-> FightFighter(0 - SeedX, a1, act, hp),
    p2 |-> FightFighter(SeedX, a2, act, hp)] :
     a1 \in {Idle, Walk}, a2 \in {Idle, Walk}, act \in BOOLEAN,
     hp \in {0, 1, SeedHp}}

FightStart(s0, role) ==
  [rb |-> <<loadCollisionData(NewRollback(s0, role), AnimConfigs),
            NewRollback(seed, 3 - role)>>,
   vm |-> <<LoadSource("walk"), LoadSource("walk")>>,
   ack |-> <<0, 0>>, k |-> <<0, 0>>]

InitFight == \E s0 \in FightSeeds, role \in {1, 2} : InitWith(FightStart(s0, role))

\* player 1 walks right, player 2 walks left
Towards(role) == IF role = 1 THEN RIGHT ELSE LEFT

FightTick(m) == DoTick(1, m, FightFrames)

NextFight == \E m \in {0, Towards(rb[1].localPlayerNumber)} : FightTick(m)

SpecFight == InitFight /\ [][NextFight]_vars

(***************************************************************************)
(* SpecHash: hashState as a function.  Each page holds one State value     *)
(* (the seed of makeRollback with some of its fields replaced) and hashes  *)
(* it.                                                                     *)
(***************************************************************************)
HashFighters ==
  {[Fighter(x0) EXCEPT !.hp = hp, !.hitboxActive = hit, !.hurtboxActive = hurt] :
     x0 \in {0 - SeedX, SeedX}, hp \in {SeedHp - 1, SeedHp},
     hit \in BOOLEAN, hurt \in BOOLEAN}

HashStates ==
  {[frame |-> f, p1 |-> f1, p2 |-> [Fighter(SeedX) EXCEPT !.hurtboxActive = hurt]] :
     f \in {0, 16}, f1 \in HashFighters, hurt \in BOOLEAN}

InitHash ==
  \E s \in HashStates, t \in HashStates :
    LoadedWith([p \in Peers |-> [kind |-> "state", s |-> IF p = 1 THEN s ELSE t]])

HashIt(p) ==
  /\ lastEvent[p].kind = "state"
  /\ lastEvent' = [lastEvent EXCEPT ![p] =
                     [kind |-> "hashed", s |-> @.s, h |-> hashState(@.s)]]
  /\ UNCHANGED <<rb, vm, lastRemoteAck, lastSentLocalFrame, net, thrown, lost,
                 startFrame, nTicks, nInject, playerRole, flagVars, acc, vmSrc,
                 assetVars, nClicks, ghostVars>>

NextHash == \E p \in Peers : HashIt(p)

SpecHash == InitHash /\ [][NextHash]_vars

(***************************************************************************)
(* Reference run: a simulator that has the same input rings up front and   *)
(* simulates every frame once, in order, from the seed.                    *)
(***************************************************************************)
InOrder(r, src) ==
  simulateTo([NewRollback(seed, r.localPlayerNumber) EXCEPT
                !.in1 = r.in1, !.in2 = r.in2],
             LoadSource(src), r.latest).rb

SameSnapshots(r, ref, from, to) ==
  \A g \in from .. to : r.hist[g % H] = ref.hist[g % H]

\* step calls a handler made: every step ticks the module twice
Replayed(p) == (vm[p].ticks - lastEvent[p].preVm.ticks) \div 2

(***************************************************************************)
(* Properties.  Page 1 is the page under observation in Spec and SpecWrap. *)
(***************************************************************************)
Ev == lastEvent[1]
IsInput == Ev.kind = "input"
IsTick == Ev.kind = "tick"
\* how far behind latest the received frame was when the handler ran
Behind == Ev.pre.latest - Ev.frame

\* the engine of page 1 agrees with the reference run `ref` on f..latest
AgreesFrom(ref, f) == SameSnapshots(rb[1], ref, f, rb[1].latest)

\* the same, provided the snapshot the rollback resumed from was the
\* reference run's
AgreesIfResumedInOrder(ref, f) ==
  Ev.pre.hist[(f - 1) % H] = ref.hist[(f - 1) % H] => AgreesFrom(ref, f)

Common == {g \in 0 .. Min2(rb[1].latest, rb[2].latest) :
             /\ rb[1].hist[g % H] # Empty /\ rb[1].hist[g % H].frame = g
             /\ rb[2].hist[g % H] # Empty /\ rb[2].hist[g % H].frame = g}

\* C2: two pages with the same script; once every Input sent has been
\* delivered (none lost, none in flight), the snapshot of every frame both
\* pages have committed and still hold is identical on both.
C2_Convergence ==
  (~lost /\ net[1] = {} /\ net[2] = {})
    => \A g \in Common : rb[1].hist[g % H] = rb[2].hist[g % H]

\* C3: under a script with persistent scope, after rollbackFrom(f) the
\* snapshots of f..latest equal those of the in-order simulator, and the
\* module has been ticked as often as in one forward run.
C3_ScopeRestored ==
  (IsInput /\ Ev.rolled /\ ~Ev.threw /\ vm[1].src \notin Stateless /\ 1 <= Ev.frame)
    => /\ SameSnapshots(rb[1], InOrder(rb[1], vm[1].src), Ev.frame, rb[1].latest)
       /\ vm[1].scope = 2 * rb[1].latest

\* C4: the slot latest mod H holds the snapshot of frame latest, and every
\* committed frame f with latest - H < f <= latest is held by slot f mod H.
C4_HistoryInvariant ==
  /\ rb[1].hist[rb[1].latest % H] # Empty
  /\ rb[1].hist[rb[1].latest % H].frame = rb[1].latest
  /\ \A f \in Max2(0, rb[1].latest - H + 1) .. rb[1].latest :
       rb[1].hist[f % H] # Empty /\ rb[1].hist[f % H].frame = f

\* C4 witness: the ring has wrapped (slot 0 reused) and a rollback has
\* rewritten snapshots.
C4_Witness ==
  /\ rb[1].latest >= H
  /\ Ev.kind = "rollbackFrom" /\ ~Ev.threw
  /\ rb[1].hist # Ev.pre.hist

\* C5: a tick run when latest = 65535 commits frame 0 and makes it latest;
\* every other tick advances latest by one.
C5_WrapProgress ==
  IsTick => /\ rb[1].latest = U16(Ev.pre.latest + 1)
            /\ rb[1].hist[rb[1].latest % H].frame = U16(Ev.pre.latest + 1)

\* the received frame's distance behind latest, modulo 2^16
WrapBehind == U16(Ev.pre.latest - Ev.frame)

\* C6: the Input handler decides from (latest - frame) mod 2^16: at most
\* H - 1 behind: exactly frame..latest are re-simulated; more than H behind:
\* nothing is re-simulated; ahead of latest (across the wrap too): no rollback.
C6_WrapAware ==
  (IsInput /\ (1 <= Ev.frame \/ WrapBehind > H))
    => /\ WrapBehind <= H - 1 => Replayed(1) = WrapBehind + 1
       /\ (WrapBehind > H /\ WrapBehind < FrameMod \div 2) => Replayed(1) = 0
       /\ WrapBehind >= FrameMod \div 2 => (~Ev.rolled /\ Replayed(1) = 0)

\* the mask the lookup policy prescribes for ring `ring` at frame f
Prescribed(ring, f) ==
  IF Written(1, ring, f) THEN RingRead(IF ring = 1 THEN rb[1].in1 ELSE rb[1].in2, f)
  ELSE IF ring = RemoteRing(rb[1])
  THEN RingRead(IF ring = 1 THEN rb[1].in1 ELSE rb[1].in2, U16(f - 1))
  ELSE 0

\* C7: the masks a tick feeds to step for frame f are: the stored mask when
\* slot f was written; otherwise the mask of slot f - 1 for the remote
\* player and zero for the local player, in either role.
C7_LookupPolicy ==
  (IsTick /\ ~Ev.threw /\ vm[1].used.frame = Ev.frame)
    => /\ vm[1].used.i1 = Prescribed(1, Ev.frame)
       /\ vm[1].used.i2 = Prescribed(2, Ev.frame)

\* C8: an Input for a frame f with latest - f >= H neither throws, nor
\* re-simulates anything, nor changes a snapshot.
C8_OverflowDropped ==
  (IsInput /\ Ev.frame <= Ev.pre.latest /\ Behind >= H)
    => /\ ~Ev.threw
       /\ Replayed(1) = 0
       /\ rb[1].hist = Ev.pre.hist

\* C9: no tick and no Input handler lets an exception escape.
C9_NoThrow == ~thrown[1] /\ ~thrown[2]

\* C10: the commands each player's tick returned are those an instance
\* ticked only with that player's own (frame, mask) sequence returns.
C10_Isolation == vm[1].cmds = vm[1].exp

ScriptKinds == {"runLocal", "gameStart", "scriptPush"}
AllUp(p) == gameStarted[p] /\ hasAssetsLoaded[p] /\ hasScriptLoaded[p]
\* the step is a pass of the loop of page p that found the gate closed
GatedPass(p) ==
  /\ lastEvent'[p].kind = "gated"
  /\ lastEvent'[p] # lastEvent[p] \/ acc'[p] < acc[p]

\* C12: start gating.  A pass of the loop made while gameStarted,
\* hasAssetsLoaded and hasScriptLoaded do not all hold runs no step, leaves
\* the engine as it was, sends no Input and no StateHash, and sets the
\* accumulator to zero.  A frame is simulated and datagrams are sent only when
\* all three hold; hasAssetsLoaded rises only when the last manifest
\* assembles from the store, hasScriptLoaded holds only for a source that
\* compiled, and gameStarted rises only in the Game Start handler or on a
\* GameStart frame from the peer.
C12_StartGating ==
  [][\A p \in Peers :
       /\ (lastEvent'[p] # lastEvent[p] /\ lastEvent'[p].kind = "tick") => AllUp(p)
       /\ (net'[Other(p)] \ net[Other(p)] # {}) => AllUp(p)
       /\ GatedPass(p) =>
            /\ ~AllUp(p)
            /\ acc'[p] = 0
            /\ rb'[p] = rb[p] /\ vm'[p] = vm[p]
            /\ net' = net
       /\ hasScriptLoaded'[p] => Compiles(vmSrc'[p])
       /\ (hasAssetsLoaded'[p] /\ ~hasAssetsLoaded[p])
            => Assembles(lastManifest'[p], cas'[p])
       /\ (gameStarted'[p] /\ ~gameStarted[p])
            => lastEvent'[p].kind \in {"gameStart", "recvGameStart"}]_vars

\* C12 witness: a page that pressed Game Start with a script that does not
\* compile has made a gated pass of its loop, and its accumulator is zero
C12_Witness ==
  \E p \in Peers :
    /\ lastEvent[p].kind = "gated"
    /\ gameStarted[p] /\ hasAssetsLoaded[p] /\ ~hasScriptLoaded[p]
    /\ acc[p] = 0
    /\ rb[p] = lastEvent[p].pre

\* C13: when a script that does not compile is applied (Run Local, Game
\* Start, or a received ScriptPush), the rollback engine is the one the page
\* had before.
C13_CompileFailureKeepsEngine ==
  \A p \in Peers :
    lastEvent[p].kind \in ScriptKinds /\ ~Compiles(vmSrc[p])
      => rb[p] = lastEvent[p].pre

\* C14: a script swap resets the engine.  Right after a script is applied the
\* engine is a new one: latest is 0, the history holds only the seed and both
\* rings are empty; and the tick that follows simulates frame 1 from it on a
\* module that has just loaded the new source.
C14_SwapResetsEngine ==
  \A p \in Peers :
    /\ lastEvent[p].kind \in ScriptKinds
         => /\ rb[p] = NewRollback(seed, playerRole[p])
            /\ getLatest(rb[p]).frame = 0
    /\ lastEvent[p].kind = "tick" /\ lastEvent[p].pre.latest = 0
         => /\ rb[p].latest = 1
            /\ rb[p].hist[1] =
                 simulateTo(setLocalInput(lastEvent[p].pre, 1, lastEvent[p].mask),
                            LoadSource(vmSrc[p]), 1).s

\* C14 witness: a page in play under the walk script applied the counting
\* script, and its next tick has simulated frame 1
C14_Witness ==
  \E p \in Peers :
    /\ gen[p] >= 2
    /\ vmSrc[p] = "count"
    /\ lastEvent[p].kind = "tick" /\ lastEvent[p].pre.latest = 0
    /\ rb[p].latest = 1

\* C15: common starting frame across a script reset.  Every remote input an
\* engine has received was sent by the peer under the same script
\* application, and no engine was discarded with an input of a later
\* application in it.
C15_CommonStart ==
  \A p \in Peers :
    /\ \A x \in heldGen[p] : x[2] = gen[p]
    /\ wiped[p] = {}

(***************************************************************************)
(* Properties of the asset transfer (SpecAssets, SpecStream).              *)
(***************************************************************************)
\* every chunk the manifest lists, and the atlas of a sprite, is in store c
AllPresent(m, c) ==
  /\ \A i \in 1 .. Len(m.chunks) : casHas(c, m.chunks[i].hash)
  /\ m.type = "sprite" /\ m.meta # Absent => casHas(c, m.meta.atlas)

RECURSIVE Pending(_, _)
Pending(calls, i) ==
  IF i > Len(calls) THEN <<>> ELSE calls[i] \o Pending(calls, i + 1)

\* C17: asset delivery.  Once page 1, which holds every chunk it lists, has
\* sent the Manifest m on the open channel, page 2 eventually holds every
\* chunk of m and has loaded an asset, with no retry.
C17_DeliveryLiveness ==
  \A m \in {MeshManifest(GlbFile), SpriteManifest(PngFile, AtlasFile)} :
    (lastManifest[1] = m) ~> (hasAssetsLoaded[2] /\ AllPresent(m, cas[2]))

\* C18: backpressure never blocks data.  A streamChunks call that waits for
\* the buffer to drain with hashes left to send eventually sends them.
C18_StreamCompletes ==
  \A p \in Peers :
    (Pending(stream[p], 1) # <<>>) ~> (Pending(stream[p], 1) = <<>>)

HeldVx(m) ==
  IF HasBit(m, RIGHT) THEN WALK ELSE IF HasBit(m, LEFT) THEN 0 - WALK ELSE 0

\* x + v as a 32-bit two's complement number, for |v| <= WALK
Wrapped(x, v) ==
  IF v > 0 /\ x > MaxInt32 - v THEN ((x - (MaxInt32 - v)) - MaxInt32) - 2
  ELSE IF v < 0 /\ x < MinInt32 - v THEN ((x - (MinInt32 - v)) + MaxInt32) + 1
  ELSE x + v

\* C21: walk arithmetic.  After n frames with one mask held by player 1 and
\* none by player 2: each step sets p1.vx to +16384, -16384 or 0 by the sign
\* of dx and p1.x to (x + vx) wrapped to 32 bits; from the seed p1.x is
\* -65536 + n * vx, 917504 after 60 frames of Right, and p2 stays at 65536.
C21_WalkArithmetic ==
  nTicks[1] >= 1 =>
    /\ getLatest(rb[1]).frame = nTicks[1]
    /\ getLatest(rb[1]).p1.vx = HeldVx(lastEvent[1].mask)
    /\ getLatest(rb[1]).p1.x =
         Wrapped(rb[1].hist[(nTicks[1] - 1) % H].p1.x, HeldVx(lastEvent[1].mask))
    /\ getLatest(rb[1]).p2.x = SeedX /\ getLatest(rb[1]).p2.vx = 0
    /\ rb[1].hist[0] = seed =>
         getLatest(rb[1]).p1.x = (0 - SeedX) + nTicks[1] * HeldVx(lastEvent[1].mask)
    /\ rb[1].hist[0] = seed /\ nTicks[1] = 60 /\ lastEvent[1].mask = RIGHT =>
         getLatest(rb[1]).p1.x = 917504

\* 60 frames of Right from the seed have been simulated
C21_Witness ==
  /\ nTicks[1] = 60 /\ lastEvent[1].mask = RIGHT /\ rb[1].hist[0] = seed
  /\ getLatest(rb[1]).frame = 60
  /\ getLatest(rb[1]).p1.x = 917504

\* the snapshot of frame g of page 1
Snap(g) == rb[1].hist[g % H]

\* C22: hp bounds.  In every committed snapshot both hp are >= 0, and from
\* one committed frame to the next each hp stays or falls by exactly 1,
\* staying at 0 once it is 0.
C22_HpBounds ==
  /\ \A g \in 0 .. rb[1].latest : Snap(g).p1.hp >= 0 /\ Snap(g).p2.hp >= 0
  /\ \A g \in 1 .. rb[1].latest :
       /\ Snap(g).p1.hp \in {Snap(g - 1).p1.hp, Max2(0, Snap(g - 1).p1.hp - 1)}
       /\ Snap(g).p2.hp \in {Snap(g - 1).p2.hp, Max2(0, Snap(g - 1).p2.hp - 1)}

\* a hit has lowered the hp of player 2 from 1 to 0 and a further hit has
\* left it at 0
C22_Witness ==
  /\ rb[1].latest >= 2
  /\ Snap(0).p2.hp = 1 /\ Snap(1).p2.hp = 0 /\ Snap(2).p2.hp = 0
  /\ Hits(rb[1].collisionData, Snap(2).p1, FALSE, Snap(2).p2, TRUE)

\* the nine values of a state: frame and x, vx, hp, anim of each fighter
NineValues(s) ==
  <<s.frame, s.p1.x, s.p1.vx, s.p1.hp, s.p1.anim,
    s.p2.x, s.p2.vx, s.p2.hp, s.p2.anim>>

\* C23: state fingerprint inputs.  Two states that agree on frame and on x,
\* vx, hp and anim of both fighters have the same hashState.
C23_HashInputs ==
  (/\ lastEvent[1].kind = "hashed" /\ lastEvent[2].kind = "hashed"
   /\ NineValues(lastEvent[1].s) = NineValues(lastEvent[2].s))
  => lastEvent[1].h = lastEvent[2].h

(***************************************************************************)
(* Properties of the roles (SpecRoles).                                    *)
(***************************************************************************)
\* the slots of ring n (1 or 2) of engine r that were assigned
Wr(r, n) == IF n = 1 THEN r.wr1 ELSE r.wr2

\* page p simulates a frame in this step
Simulates(p) == nTicks'[p] = nTicks[p] + 1

\* C24: role-consistent input rings.  A pass of the loop writes the local
\* mask into the ring of the engine's local player and leaves the other ring
\* alone, and a page that has a connection role simulates with an engine
\* whose local player is that role.
C24_RoleRings ==
  [][\A p \in Peers : Simulates(p) =>
       /\ lastEvent'[p].frame \in Wr(rb'[p], rb[p].localPlayerNumber)
       /\ Wr(rb'[p], RemoteRing(rb[p])) = Wr(rb[p], RemoteRing(rb[p]))
       /\ playerRole[p] # Undefined => rb[p].localPlayerNumber = playerRole[p]]_vars

(***************************************************************************)
(* Properties of the assets handlers (SpecAssets).                         *)
(***************************************************************************)
\* page p handles the frame of kind t at the head of its queue in this step
Handles(p, t) ==
  /\ anet[p] # <<>>
  /\ Head(anet[p]).t = t
  /\ anet'[p] = Tail(anet[p])

\* the hashes of the chunks of m that store c lacks, in the order of m
Missing(m, c) ==
  LET Lacks(h) == h \notin DOMAIN c
  IN SelectSeq([i \in 1 .. Len(m.chunks) |-> m.chunks[i].hash], Lacks)

ManifestStep(p, m, missing) ==
  /\ lastManifest'[p] = m
  /\ IF missing = <<>>
     THEN /\ anet'[Other(p)] = anet[Other(p)]
          /\ Assembles(m, cas[p]) => hasAssetsLoaded'[p]
     ELSE /\ anet'[Other(p)] = Append(anet[Other(p)], encNeedChunks(missing))
          /\ hasAssetsLoaded'[p] = hasAssetsLoaded[p]

\* C25: manifest receipt step.  The page that receives a Manifest stores it
\* as its last manifest; when its store has every listed chunk it sends
\* nothing and loads the asset in the same step, otherwise it sends one
\* NeedChunks with exactly the listed hashes its store lacks and loads
\* nothing.
C25_ManifestReceipt ==
  [][\A p \in Peers : Handles(p, "Manifest") =>
       ManifestStep(p, decManifest(Head(anet[p])),
                    Missing(decManifest(Head(anet[p])), cas[p]))]_vars

\* page 2 holds the PNG of the sprite and not its atlas, has stored the
\* sprite manifest and has asked page 1 for the atlas alone
C25_Witness ==
  /\ lastManifest[2] = SpriteManifest(PngFile, AtlasFile)
  /\ casHas(cas[2], hashOf(PngFile)) /\ ~casHas(cas[2], hashOf(AtlasFile))
  /\ \E i \in 1 .. Len(anet[1]) : anet[1][i] = encNeedChunks(<<hashOf(AtlasFile)>>)

\* the frames page p puts on the channel in this step
Sent(p) ==
  IF nInject' = nInject /\ Len(anet'[Other(p)]) > Len(anet[Other(p)])
  THEN SubSeq(anet'[Other(p)], Len(anet[Other(p)]) + 1, Len(anet'[Other(p)]))
  ELSE <<>>

\* the bytes of the frames k, k + 1, ... of fs
RECURSIVE BytesFrom(_, _)
BytesFrom(fs, k) ==
  IF k > Len(fs) THEN 0 ELSE byteLength(fs[k]) + BytesFrom(fs, k + 1)

\* C26: backpressure pause.  Whenever a page sends a Chunk frame, the
\* buffered amount of its channel just before that send does not exceed the
\* high-water mark, also when several NeedChunks requests are being served.
C26_Backpressure ==
  [][\A p \in Peers : \A k \in 1 .. Len(Sent(p)) :
       Sent(p)[k].t = "Chunk"
         => buffered'[p] - BytesFrom(Sent(p), k) <= DrainMark]_vars

\* the hashes manifest m names: those of its chunks and its atlas
Named(m) ==
  {m.chunks[i].hash : i \in 1 .. Len(m.chunks)}
  \cup (IF m.meta # Absent THEN {m.meta.atlas} ELSE {})

\* hash h is named by no pending manifest of page p
Stray(p, h) == lastManifest[p] = Absent \/ h \notin Named(lastManifest[p])

\* C27: stray chunk.  A page that receives a Chunk whose hash its pending
\* manifest does not name stores the chunk and does nothing else: the pending
\* manifest and hasAssetsLoaded stay as they are and the viewer is not asked
\* to load.
C27_StrayChunk ==
  [][\A p \in Peers :
       Handles(p, "Chunk") /\ Stray(p, decChunk(Head(anet[p])).hash)
         => /\ casHas(cas'[p], decChunk(Head(anet[p])).hash)
            /\ lastManifest'[p] = lastManifest[p]
            /\ hasAssetsLoaded'[p] = hasAssetsLoaded[p]
            /\ ~lastEvent'[p].loaded]_vars

\* the Chunk frames for the hashes of hs from position i on that store c
\* holds, in the order of hs
RECURSIVE Served(_, _, _)
Served(hs, c, i) ==
  IF i > Len(hs) THEN <<>>
  ELSE (IF hs[i] \in DOMAIN c THEN <<encChunk(hs[i], 0, c[hs[i]])>> ELSE <<>>)
       \o Served(hs, c, i + 1)

\* fs is the start of gs
Prefix(fs, gs) == Len(fs) <= Len(gs) /\ fs = SubSeq(gs, 1, Len(fs))

\* what the page that handles NeedChunks(hs) does in this step: it sends the
\* Chunk frames of the stored hashes in request order, all of them unless it
\* stops to wait for the buffer, in which case the hashes it has not reached
\* are kept by the waiting call; nothing is thrown
ServeStep(p, hs, all) ==
  /\ Prefix(Sent(p), all)
  /\ all # <<>> => Sent(p) # <<>>
  /\ thrown'[p] = thrown[p]
  /\ IF stream'[p] = stream[p]
     THEN Sent(p) = all
     ELSE \E k \in 1 .. Len(hs) :
            /\ stream'[p] = Append(stream[p], SubSeq(hs, k + 1, Len(hs)))
            /\ Sent(p) \o Served(hs, cas[p], k + 1) = all

Emitted(p) == net'[Other(p)] \ net[Other(p)]

\* the ring of the local player of engine r
LocalRing(r) == IF r.localPlayerNumber = 1 THEN r.in1 ELSE r.in2

\* C29: order within a tick.  In a pass of the loop that simulates frame
\* `next`, the local mask is in the local ring, and the datagrams of the pass
\* are emitted once simulateTo(next) has completed: the Input for `next`,
\* whose ack sendInput reads from the engine's latest frame, is built from
\* the engine at frame `next`, and the StateHash is the hash of that snapshot.
C29_TickOrder ==
  [][\A p \in Peers : Simulates(p) =>
       /\ RingRead(LocalRing(rb'[p]), lastEvent'[p].frame) = lastEvent'[p].mask
       /\ getLatest(rb'[p]).frame = lastEvent'[p].frame
       /\ \A b \in Emitted(p) :
            /\ b.frame = lastEvent'[p].frame
            /\ b.t = "StateHash" => decStateHash(b).hash = hashState(getLatest(rb'[p]))
            /\ b.t = "Input" => b.ack = U16(getLatest(rb'[p]).frame)]_vars

\* the frames for which engine r has been given a remote Input
Heard(r) == Wr(r, RemoteRing(r))

\* the highest of them
HighestHeard(r) == CHOOSE f \in Heard(r) : \A g \in Heard(r) : g <= f

\* C30: ack content.  The ack of every Input a page emits is the highest
\* frame for which the page had received a remote Input when it sent.
C30_AckContent ==
  [][\A p \in Peers : Simulates(p) /\ Heard(rb[p]) # {} =>
       \A b \in Emitted(p) :
         b.t = "Input" => b.ack = HighestHeard(rb[p])]_vars

\* the datagrams of kind t among those page p emits in this step
EmittedOf(p, t) == {b \in Emitted(p) : b.t = t}

\* page p commits frame f in this step
Commits(p, f) == rb[p].latest = f - 1 /\ rb'[p].latest = f

\* C31: StateHash cadence.  In the pass of the loop that commits frame f with
\* the live channel open, exactly one Input, for frame f, is emitted; when f
\* is a multiple of 16 exactly one StateHash is emitted, for frame f with the
\* hash of the snapshot committed for f, and otherwise none.
C31_HashCadence ==
  [][\A p \in Peers : \A f \in 1 .. (rb[p].latest + 1) :
       Simulates(p) /\ Commits(p, f) /\ ChannelsOpen =>
         /\ Cardinality(EmittedOf(p, "Input")) = 1
         /\ \A b \in EmittedOf(p, "Input") : b.frame = U16(f)
         /\ EmittedOf(p, "StateHash") =
              (IF f % 16 = 0
               THEN {encStateHash(f, hashState(rb'[p].hist[f % H]))}
               ELSE {})]_vars

\* page 1 has committed frame 64 and then frame 65; the StateHash of frame 64
\* is in flight and none for frame 65
C31_Witness ==
  /\ rb[1].latest = 65 /\ nTicks[1] = 2
  /\ \E b \in net[2] : b.t = "StateHash" /\ b.frame = 64
  /\ \E b \in net[2] : b.t = "Input" /\ b.frame = 65
  /\ \A b \in net[2] : b.t = "StateHash" => b.frame = 64

(***************************************************************************)
(* Properties of step under a script that returns no command (SpecQuiet).  *)
(***************************************************************************)
\* the velocity the input mask alone stands for
MaskVx(m) ==
  IF HasBit(m, LEFT) THEN 0 - WALK ELSE IF HasBit(m, RIGHT) THEN WALK ELSE 0

\* C32: empty-command fallback.  When the tick call of a player returned an
\* empty command list for the frame just simulated, that player's vx in the
\* snapshot of the frame is the one its input mask stands for: -WALK under
\* Left, else +WALK under Right, else 0.
C32_EmptyFallback ==
  (lastEvent[1].kind = "tick" /\ vm[1].used.frame = lastEvent[1].frame)
  => /\ vm[1].cmds[1] = <<>> => getLatest(rb[1]).p1.vx = MaskVx(vm[1].used.i1)
     /\ vm[1].cmds[2] = <<>> => getLatest(rb[1]).p2.vx = MaskVx(vm[1].used.i2)

(***************************************************************************)
(* Properties of the engine's objects (SpecHeap).                          *)
(***************************************************************************)
\* the snapshot the history holds for slot k
Snapshot(h, k) == h.heap[h.hist[k]]

\* C33: committed snapshots are immutable.  The objects getLatest and
\* simulateTo return and the seed object are not objects of the history
\* ring, so a write of the caller into any of them changes no snapshot.
C33_SnapshotsImmutable ==
  /\ \A k \in DOMAIN Hp.hist : Hp.hist[k] \notin Hp.held \cup {Hp.seedRef}
  /\ \A k \in DOMAIN Hp.hist : Snapshot(Hp, k).p1.hp = SeedHp

\* the caller has written into the State simulateTo returned for frame 2 and
\* into the seed object, and the snapshots of frames 0 and 2 still differ
\* from them
C33_Witness ==
  /\ Hp.op = "write" /\ Hp.latest = 2
  /\ Hp.heap[Hp.seedRef].p1.hp = 0
  /\ \E ref \in Hp.held : Hp.heap[ref].frame = 2 /\ Hp.heap[ref].p1.hp = 0
  /\ Snapshot(Hp, 0).p1.hp = SeedHp /\ Snapshot(Hp, 2).p1.hp = SeedHp

(***************************************************************************)
(* Early remote input (Spec).                                              *)
(***************************************************************************)
Rg(r, n) == IF n = 1 THEN r.in1 ELSE r.in2

\* the step is the receipt of an Input by page 1
Receives == nInject'[1] = nInject[1] + 1

\* the remote mask the last step call was given
UsedRemote(r, v) == IF RemoteRing(r) = 1 THEN v.used.i1 ELSE v.used.i2

\* C34: early remote input.  An Input(f, m) with f > latest writes slot f of
\* the remote ring and nothing else of the engine: latest, the history, the
\* local ring and the VM are as before and no rollback runs.  The tick that
\* then commits frame f gives m to step as the remote player's mask.
C34_EarlyInput ==
  [][/\ (Receives /\ lastEvent'[1].frame > rb[1].latest) =>
          /\ rb'[1].latest = rb[1].latest
          /\ rb'[1].hist = rb[1].hist
          /\ Rg(rb'[1], rb[1].localPlayerNumber) = Rg(rb[1], rb[1].localPlayerNumber)
          /\ Rg(rb'[1], RemoteRing(rb[1])) =
               RingWrite(Rg(rb[1], RemoteRing(rb[1])), lastEvent'[1].frame,
                         lastEvent'[1].mask)
          /\ RingRead(Rg(rb'[1], RemoteRing(rb[1])), lastEvent'[1].frame) =
               lastEvent'[1].mask
          /\ vm'[1] = vm[1]
          /\ ~lastEvent'[1].rolled
          /\ thrown'[1] = thrown[1]
     /\ (IsInput /\ Ev.frame > Ev.pre.latest /\ Simulates(1)
           /\ Commits(1, Ev.frame)) =>
          /\ vm'[1].used.frame = Ev.frame
          /\ UsedRemote(rb'[1], vm'[1]) = Ev.mask]_vars

\* the tick that committed a frame whose remote slot was written before the
\* engine reached it, with Left as the remote mask
C34_Witness ==
  /\ IsTick /\ nInject[1] = 1
  /\ rb[1].latest = Ev.pre.latest + 1
  /\ rb[1].latest \in Heard(Ev.pre)
  /\ vm[1].used.frame = rb[1].latest
  /\ UsedRemote(rb[1], vm[1]) = LEFT

(***************************************************************************)
(* Frames cut short (SpecShort).                                           *)
(***************************************************************************)
\* a ScriptPush frame that holds fewer bytes than its length field says
IsShort(buf) ==
  /\ buf.t = "ScriptPush"
  /\ Len(buf.body) < buf.nl + 4 + getUint32(buf.body, buf.nl)

\* page p handles the frame at the head of its assets queue
Handled(p) == anet[p] # <<>> /\ anet'[p] = Tail(anet[p])

\* C35: malformed frames are dropped.  A frame that cannot be decoded, such
\* as a ScriptPush cut short, is dropped with the engine, the VM, the script
\* source, the gating flags, the store and the pending manifest unchanged.
C35_ShortDropped ==
  [][Handled(1) /\ IsShort(Head(anet[1])) =>
       UNCHANGED <<rb, vm, vmSrc, flagVars, cas, lastManifest>>]_vars

(***************************************************************************)
(* StateHash receipt (SpecHashIn).                                         *)
(***************************************************************************)
\* the StateHash datagrams page p takes from the live channel in the step
HashesTaken(p) == {b \in net[p] \ net'[p] : b.t = "StateHash"}

\* C36: StateHash receipt is log-only.  Receiving a StateHash changes
\* neither the rollback engine (latest, history, input rings) nor the VM,
\* the gating flags, the script source or the recorded ack, whether or not
\* its hash is the hash of the local snapshot of that frame.
C36_HashLogOnly ==
  [][HashesTaken(1) # {} =>
       UNCHANGED <<rb, vm, flagVars, lastRemoteAck, lastSentLocalFrame, thrown,
                   vmSrc, nTicks, acc>>]_vars

\* both datagrams for frame 64, the matching and the other one, have been
\* received and the page has ticked on to frame 65
C36_Witness ==
  /\ nInject[1] = 1 /\ net[1] = {}
  /\ rb[1].latest = 65 /\ nTicks[1] = 2
  /\ \E b \in net[2] : b.t = "StateHash" /\ b.frame = 64
  /\ lastRemoteAck[1] = 0

(***************************************************************************)
(* The frame effect of rollbackFrom (SpecFar).                             *)
(***************************************************************************)
\* the last call was rollbackFrom and it returned
Rolled == Ev.kind = "rollbackFrom" /\ ~Ev.threw

\* what rollbackFrom(Ev.frame) left of the engine Ev.pre: latest and both
\* rings as they were, every history slot it changed holding a frame of
\* Ev.frame .. latest, and slot latest mod H holding frame latest
RollEffect ==
  /\ rb[1].latest = Ev.pre.latest
  /\ rb[1].in1 = Ev.pre.in1 /\ rb[1].in2 = Ev.pre.in2
  /\ rb[1].wr1 = Ev.pre.wr1 /\ rb[1].wr2 = Ev.pre.wr2
  /\ \A k \in Slots :
       rb[1].hist[k] # Ev.pre.hist[k] =>
         Ev.frame <= rb[1].hist[k].frame /\ rb[1].hist[k].frame <= rb[1].latest
  /\ rb[1].hist[rb[1].latest % H].frame = rb[1].latest

InSim == Ev.kind \in {"simBegin", "simPass", "simReturn"}

\* the call made no pass and returns the latest committed snapshot
NoStep ==
  /\ Ev.passes = 0
  /\ rb[1] = Ev.pre
  /\ vm[1].ticks = Ev.preVm.ticks
  /\ Ev.s = getLatest(Ev.pre)

\* the j-th pass of the call committed frame latest + j, and the call
\* returns after the pass that commits the target
PassesInOrder ==
  /\ Ev.passes <= Ev.frame - Ev.pre.latest
  /\ rb[1].latest = Ev.pre.latest + Ev.passes
  /\ Ev.s.frame = rb[1].latest
  /\ getLatest(rb[1]) = Ev.s
  /\ vm[1].ticks = Ev.preVm.ticks + 2 * Ev.passes
  /\ Ev.kind = "simReturn" => Ev.passes = Ev.frame - Ev.pre.latest

C38_SimulateTo16 ==
  (InSim /\ Ev.frame < FrameMod) =>
    IF Ev.frame <= Ev.pre.latest THEN NoStep ELSE PassesInOrder

(***************************************************************************)
(* Loads per manifest (SpecOnce).                                          *)
(***************************************************************************)
\* the pending manifest of page p has been assembled: the store holds what
\* tryAssembleAndLoad asks for, and every step that stores a chunk or sets
\* the pending manifest of a page in SpecOnce has called it
Assembled(p) ==
  lastManifest[p] # Absent /\ Assembles(lastManifest[p], cas[p])

\* C39: single notification per manifest.  Once the pending manifest has
\* been assembled, a further Chunk frame does not start another viewer
\* load.
C39_SingleLoad ==
  [][\A p \in Peers :
       Handles(p, "Chunk") /\ Assembled(p) => ~lastEvent'[p].loaded]_vars

(***************************************************************************)
(* Truncation on the live wire (SpecWire).                                 *)
(***************************************************************************)
\* x is y mod 2^32 (both held in 32 bits)
Same32(x, y) ==
  /\ x % 65536 = y % 65536
  /\ (x \div 65536) % 65536 = (y \div 65536) % 65536

\* the ring slots written when the sender (player 1) stores its input for
\* frame f and when the receiver (player 2) stores the decoded Input
SenderSlots(f, m) == Wr(setLocalInput(NewRollback(seed, 1), f, m), 1)
ReceiverSlots(d) == Wr(setRemoteInput(NewRollback(seed, 2), d.frame, d.mask), 1)

\* the message page 1 built and what page 2 decoded from its frame
WireMsg == lastEvent[1].msg
WireOut == lastEvent[2].out

\* C40: 16-bit truncation on the live wire.  For arbitrary integers
\* decInput(encInput(f, m, a)) = (f mod 2^16, m mod 2^16, a mod 2^16) and
\* decStateHash(encStateHash(f, h)) = (f mod 2^16, h mod 2^32), and the
\* frame of an Input names the same ring slot on the receiver as on the
\* sender.
C40_WireTruncation ==
  lastEvent[2].kind = "decoded" =>
    IF WireMsg.t = "Input"
    THEN /\ WireOut.frame = WireMsg.v.frame % 65536
         /\ WireOut.mask = WireMsg.v.mask % 65536
         /\ WireOut.ack = WireMsg.v.ack % 65536
         /\ ReceiverSlots(WireOut) = SenderSlots(WireMsg.v.frame, WireMsg.v.mask)
         /\ ReceiverSlots(WireOut) = {WireMsg.v.frame % 65536}
    ELSE /\ WireOut.frame = WireMsg.v.frame % 65536
         /\ Same32(WireOut.hash, WireMsg.v.hash)

\* the Input for frame 65537 with mask 65536 + Right has been decoded as
\* frame 1 with mask Right
C40_Witness ==
  /\ lastEvent[2].kind = "decoded"
  /\ WireMsg.t = "Input" /\ WireMsg.v.frame = 65537 /\ WireMsg.v.mask = 65536 + RIGHT
  /\ WireOut.frame = 1 /\ WireOut.mask = RIGHT

==============================================================================
